---- MODULE Spec2Model ----
(***************************************************************************)
(* Deployment platform (backend/): the Control API handlers of app.py, the *)
(* worker-side executor of tasks.py, the Deployment Store of db_manager.py *)
(* and the container engine as docker_manager.py drives it.                *)
(*                                                                         *)
(* Python None is modelled as 0 for ids, ports and version numbers, and    *)
(* as NoRec for a missing row.  A URL is a pair: <<"proxy", id>> is the    *)
(* path /deploy/{id}/ and <<"direct", port>> is http://{PUBLIC_IP}:{port}. *)
(***************************************************************************)
EXTENDS Integers, Sequences, FiniteSets, TLC

\* ------------------------------------------------------------------ bounds
\* dep_id = str(uuid.uuid4())[:8] is a draw from a finite set, with no check
\* that the id is new: the model draws it from 1..NumIds.
NumIds == 2
\* Events beyond the first submit that one behaviour holds: further submits,
\* Redis calls that raise, management requests of the Control API (read,
\* restart, rollback, env update, delete), containers exiting on their own.
MaxEvents == 2
\* Host ports the engine hands out.
NumPorts == 2
\* Empty polls of one SSE tail loop that the model follows.
MaxEmptyReads == 1
\* Calls of save_deployment_version followed by SpecVersions.
MaxVersionCalls == 11
\* Times the clock of the rate limiter advances in SpecRate, for a key
\* of the deploy or upload category (once for a key of the api category).
MaxTicks == 2
\* Calls of is_allowed beyond max_requests that SpecRate follows.
MaxExtraRequests == 2
\* Tokens of the engines.node string of a package.json followed by SpecNode.
MaxReqLen == 2
\* Request threads that call is_allowed on one key in SpecThreads.
NumThreads == 2

\* ------------------------------------------------------- program constants
\* app.py:177  if len(existing_versions) >= 10
VERSION_LIMIT == 10
\* app.py:334  if empty_reads > 2400
EMPTY_READS_LIMIT == 2400
None == 0
\* rate_limiter.py:21-23  default_limits
DEPLOY_MAX_REQUESTS == 10
DEPLOY_WINDOW == 3600
API_MAX_REQUESTS == 100
API_WINDOW == 60
UPLOAD_MAX_REQUESTS == 5
UPLOAD_WINDOW == 3600
\* rate_limiter.py:88  the status of the over-limit response
TOO_MANY_REQUESTS == 429
\* docker_manager.py:668  os.getenv('CONTAINER_CPU_LIMIT', '0.5'), in tenths
\* of a CPU
DEFAULT_CPU_LIMIT == 5
\* docker_manager.py:680  cpu_period=100000
CPU_PERIOD == 100000
\* rate_limiter.py:96  the status of a response that is not a tuple
OK == 200
\* app.py:356  the status of the answer to a request without a required field
BAD_REQUEST == 400
\* 'Version {target_version} not found'
NOT_FOUND == 404
\* app.py:551  the status of the answer of deploy_local's except block
INTERNAL_SERVER_ERROR == 500

DepIds == 1..NumIds
Ports == 1..NumPorts
DbTypes == {"sqlite", "postgresql"}
NoRec == [id |-> None]
NoUrl == <<"none", None>>

VARIABLES
    db_type,              \* DatabaseManager.db_type
    deployments,          \* table deployments: id -> row or NoRec
    deployment_versions,  \* table deployment_versions, in insertion order
    q,                    \* the job queue (rq Queue), FIFO
    logs,                 \* Log Bus: id -> the Redis list logs:{id}
    containers,           \* engine: container id -> container
    worker,               \* the worker running run_deployment_task
    sse,                  \* the SSE tail loop being followed
    api,                  \* the management request being handled
    submits,              \* submit requests so far
    faults,               \* Redis calls that raised so far
    calls,                \* management requests so far
    exits,                \* containers that exited on their own so far
    limiter,              \* RateLimiter: the clock and the list of one key
    recipe,               \* one submit followed from its request to containers.run
    project,              \* one project directory and what is derived from it
    tunnels               \* CloudflareTunnelManager and the threads calling it

\* ------------------------------------------------- CloudflareTunnelManager
\* A thread that is in no method of the manager.
IdleCaller == [pc |-> "idle", caller |-> "none", deployment_id |-> 0,
               pending |-> <<>>, ret |-> "none"]

\* __init__: active_tunnels = {}, tunnel_lock = threading.Lock().
\* active_tunnels: the keys of the dict in insertion order; process: the
\* cloudflared process started for an id; tunnel_lock: the thread that
\* holds the lock, 0 when it is free.
NoTunnels ==
    [active_tunnels |-> <<>>,
     process |-> [d \in 1..NumIds |-> "none"],
     tunnel_lock |-> 0,
     threads |-> [t \in 1..NumThreads |-> IdleCaller]]

\* The platform's part of the state.
platform == <<db_type, deployments, deployment_versions, q, logs, containers,
              worker, sse, api, submits, faults, calls, exits>>

vars == <<db_type, deployments, deployment_versions, q, logs, containers,
          worker, sse, api, submits, faults, calls, exits, limiter, recipe,
          project, tunnels>>

\* ------------------------------------------------------------------ store
\* ON CONFLICT (id) DO UPDATE SET: the six columns the PostgreSQL upsert
\* writes when the id has a row
Upsert(row, dep) ==
    [row EXCEPT !.status = dep.status,
                !.containerId = dep.containerId,
                !.port = dep.port,
                !.config = dep.config,
                !.environmentVariables = dep.environmentVariables,
                !.version = dep.version]

\* INSERT OR REPLACE writes the whole row; the PostgreSQL upsert writes the
\* whole row when the id is new and six columns when it exists.  The
\* config and env_vars columns hold JSON text: json.dumps on save and
\* json.loads on read give back the lists and dicts the handlers store.
save_deployment(tbl, dep) ==
    IF db_type = "postgresql" /\ tbl[dep.id] # NoRec
    THEN [tbl EXCEPT ![dep.id] = Upsert(@, dep)]
    ELSE [tbl EXCEPT ![dep.id] = dep]

get_deployment(tbl, id) == tbl[id]

\* The rows of one deployment, in table order.
RowsOf(rows, id) == SelectSeq(rows, LAMBDA v : v.deployment_id = id)

\* Position of a row with the highest version number among rows s.
RECURSIVE MaxVersionIdx(_, _, _)
MaxVersionIdx(s, i, best) ==
    IF i > Len(s) THEN best
    ELSE MaxVersionIdx(s, i + 1, IF s[i].version > s[best].version THEN i ELSE best)

RemoveAt(s, i) == SubSeq(s, 1, i - 1) \o SubSeq(s, i + 1, Len(s))

\* ORDER BY version DESC
RECURSIVE OrderByVersionDesc(_)
OrderByVersionDesc(s) ==
    IF s = <<>> THEN <<>>
    ELSE LET i == MaxVersionIdx(s, 1, 1)
         IN <<s[i]>> \o OrderByVersionDesc(RemoveAt(s, i))

get_deployment_versions(rows, id) == OrderByVersionDesc(RowsOf(rows, id))

db_save_deployment_version(rows, id, version) ==
    Append(rows, [deployment_id |-> id,
                  version |-> version.version,
                  containerId |-> version.containerId])

\* DELETE FROM deployments: the PostgreSQL schema cascades to the version
\* rows (ON DELETE CASCADE), the SQLite schema does not.
db_delete_versions(rows, id) ==
    IF db_type = "postgresql"
    THEN SelectSeq(rows, LAMBDA v : v.deployment_id # id)
    ELSE rows

\* ----------------------------------------------------------------- engine
NoContainer == [status |-> "not_found", name |-> <<"none", None>>,
                deployment_id |-> None, port |-> None]

Exists(cs, cid) == cid \in DOMAIN cs /\ cs[cid].status # "not_found"

\* DockerManager.get_container_status
get_container_status(cs, cid) ==
    IF Exists(cs, cid) THEN cs[cid].status ELSE "not_found"

\* A stop that leaves the stopped container in the engine.
StoppedOnly(cs, cid) ==
    IF Exists(cs, cid) THEN [cs EXCEPT ![cid].status = "exited"] ELSE cs

\* DockerManager.stop_container: stop, then remove; a missing container (or
\* a None id) leaves the engine as it is.
stop_container(cs, cid) ==
    IF Exists(cs, cid) THEN [cs EXCEPT ![cid] = NoContainer] ELSE cs

\* name=f"deploy-{deployment_id}" (static), f"web-{dep_id}" (service),
\* f"dev-{dep_id}" (Node.js dev mode), f"java-{dep_id}" (Java)
ContainerName(recipe_name, id) ==
    <<CASE recipe_name = "deploy_static_site" -> "deploy"
        [] recipe_name = "deploy_web_service" -> "web"
        [] recipe_name = "deploy_nodejs_dev" -> "dev"
        [] recipe_name = "deploy_java_service" -> "java", id>>

\* Pre-build cleanup: the container with the derived name is removed.
RemoveByName(cs, name) ==
    [c \in DOMAIN cs |-> IF cs[c].name = name THEN NoContainer ELSE cs[c]]

FreePorts(cs) == Ports \ {cs[c].port : c \in {x \in DOMAIN cs : Exists(cs, x)}}

\* ------------------------------------------------------------- versioning
\* app.save_deployment_version: the new row, then the stop of the oldest
\* version's container once ten rows existed.
VersionsAfterSave(rows, deployment) ==
    LET existing_versions == get_deployment_versions(rows, deployment.id)
        next_version == Len(existing_versions) + 1
    IN db_save_deployment_version(rows, deployment.id,
           [version |-> next_version, containerId |-> deployment.containerId])

ContainersAfterVersionSave(rows, cs, deployment) ==
    LET existing_versions == get_deployment_versions(rows, deployment.id)
    IN IF Len(existing_versions) >= VERSION_LIMIT
       THEN LET oldest_version == existing_versions[Len(existing_versions)]
            IN IF oldest_version.containerId # None
               THEN stop_container(cs, oldest_version.containerId)
               ELSE cs
       ELSE cs

\* ---------------------------------------------------------------- Log Bus
Event(type, message) == [type |-> type, message |-> message, success |-> FALSE,
                         containerId |-> None, port |-> None, directUrl |-> NoUrl]

\* emit_log_redis: rpush of one record
emit_log_redis(bus, dep_id, message, type) ==
    [bus EXCEPT ![dep_id] = Append(@, Event(type, message))]

PublicUrl(port) == <<"direct", port>>

success_payload(container_id, port) ==
    [type |-> "done", message |-> "done", success |-> TRUE,
     containerId |-> container_id, port |-> port, directUrl |-> PublicUrl(port)]

failure_payload == [Event("done", "done") EXCEPT !.success = FALSE]

HasDone(s) == \E i \in 1..Len(s) : s[i].type = "done"

\* ----------------------------------------------------------- rate limiter
LimitTypes == {"deploy", "api", "upload"}

max_requests(limit_type) ==
    CASE limit_type = "deploy" -> DEPLOY_MAX_REQUESTS
      [] limit_type = "upload" -> UPLOAD_MAX_REQUESTS
      [] OTHER -> API_MAX_REQUESTS

window(limit_type) ==
    CASE limit_type = "deploy" -> DEPLOY_WINDOW
      [] limit_type = "upload" -> UPLOAD_WINDOW
      [] OTHER -> API_WINDOW

\* One key f"{limit_type}:{client_ip}" of RateLimiter.requests.
\* now: time.time(); requests: self.requests[key]; allowed, remaining: what
\* the last is_allowed call returned ("none" before the first call and
\* after the clock moved); admitted: the timestamps of all admitted calls;
\* calls, ticks: the is_allowed calls and the clock moves so far;
\* status, headers, invoked: the response decorated_function returned for
\* the last request (status None before it), the X-RateLimit headers on it
\* as <<name, value>> pairs, and whether the wrapped handler f was called.
\* lock: the thread that holds self.lock, None when it is free; threads:
\* where each request thread is inside is_allowed, with its locals;
\* expired: the timestamps the cleaning dropped so far; returned: for every
\* admitted call, in the order of admitted, the remaining it was handed and
\* the value of expired at that moment.
IdleThread == [pc |-> "idle", now |-> 0, full |-> FALSE]

FreshLimiter(limit_type) ==
    [limit_type |-> limit_type, now |-> 0, requests |-> <<>>, allowed |-> "none",
     remaining |-> 0, admitted |-> <<>>, calls |-> 0, ticks |-> 0,
     status |-> None, headers |-> {}, invoked |-> FALSE,
     lock |-> None, threads |-> [t \in 1..NumThreads |-> IdleThread],
     expired |-> 0, returned |-> <<>>]

\* A cleaning that also keeps the request that left the window last.
CleanedLate(reqs, now, limit_type) ==
    SelectSeq(reqs, LAMBDA req_time : now - req_time <= window(limit_type))

\* rate_limiter.py:38-41  Clean old requests
Cleaned(reqs, now, limit_type) ==
    SelectSeq(reqs, LAMBDA req_time : now - req_time < window(limit_type))

\* RateLimiter.is_allowed(key, limit_type): the key after the call, with
\* what the call returned in allowed and remaining
is_allowed(lim) ==
    LET kept == Cleaned(lim.requests, lim.now, lim.limit_type)
        max == max_requests(lim.limit_type)
    IN IF Len(kept) >= max
       THEN [lim EXCEPT !.requests = kept, !.allowed = "no",
                        !.remaining = 0, !.calls = @ + 1]
       ELSE [lim EXCEPT !.requests = Append(kept, lim.now),
                        !.allowed = "yes",
                        !.remaining = max - (Len(kept) + 1),
                        !.admitted = Append(@, lim.now),
                        !.calls = @ + 1]

\* rate_limiter.py:99-103  the headers set on a response of the handler
RateLimitHeaders(lim) ==
    {<<"X-RateLimit-Remaining", lim.remaining>>,
     <<"X-RateLimit-Limit", max_requests(lim.limit_type)>>}

\* What the wrapped handlers return: a response object alone, or a tuple of
\* a response object and a status code.  Every decorated handler of app.py
\* returns a Flask response (jsonify or Response), so hasattr(response_obj,
\* 'headers') holds.

\* rate_limit.decorated_function: one request to a decorated endpoint.
\* is_tuple, status_code: what f returns when it is called.
decorated_function(is_tuple, status_code) ==
    LET checked == is_allowed(limiter)
    IN /\ limiter.calls < max_requests(limiter.limit_type) + MaxExtraRequests
       /\ ~is_tuple => status_code = OK
       /\ limiter' =
             IF checked.allowed = "no"
             THEN [checked EXCEPT !.status = TOO_MANY_REQUESTS, !.headers = {},
                                  !.invoked = FALSE]
             ELSE [checked EXCEPT !.status = status_code,
                                  !.headers = RateLimitHeaders(checked),
                                  !.invoked = TRUE]
       /\ UNCHANGED <<tunnels, project, recipe, platform>>

\* A lock that every thread may take at any time.
LockIgnored(lim) == TRUE

\* with self.lock: the lock is taken only while no thread holds it
LockFree(lim) == lim.lock = None

\* A request thread calls is_allowed and arrives at `with self.lock`.
is_allowed_call(t) ==
    /\ limiter.threads[t].pc = "idle"
    /\ limiter.calls + Cardinality({u \in 1..NumThreads :
                                       limiter.threads[u].pc # "idle"})
          < max_requests(limiter.limit_type) + MaxExtraRequests
    /\ limiter' = [limiter EXCEPT !.threads[t].pc = "waiting"]
    /\ UNCHANGED <<tunnels, project, recipe, platform>>

\* rate_limiter.py:31  the thread enters the with block
lock_acquire(t) ==
    /\ limiter.threads[t].pc = "waiting"
    /\ LockFree(limiter)
    /\ limiter' = [limiter EXCEPT !.lock = t, !.threads[t].pc = "clean"]
    /\ UNCHANGED <<tunnels, project, recipe, platform>>

\* rate_limiter.py:32-44  now = time.time(), the cleaning of the list and
\* the comparison of its length with max_requests
clean_and_check(t) ==
    LET kept == Cleaned(limiter.requests, limiter.now, limiter.limit_type)
    IN /\ limiter.threads[t].pc = "clean"
       /\ limiter' =
             [limiter EXCEPT
                 !.requests = kept,
                 !.expired = @ + Len(limiter.requests) - Len(kept),
                 !.threads[t] =
                     [pc |-> "record", now |-> limiter.now,
                      full |-> Len(kept) >= max_requests(limiter.limit_type)]]
       /\ UNCHANGED <<tunnels, project, recipe, platform>>

\* rate_limiter.py:44-51  the return of (False, 0), or the append of now and
\* the return of (True, remaining); the with block is left
record_and_return(t) ==
    LET th == limiter.threads[t]
        reqs == Append(limiter.requests, th.now)
        left == max_requests(limiter.limit_type) - Len(reqs)
    IN /\ th.pc = "record"
       /\ limiter' =
             IF th.full
             THEN [limiter EXCEPT !.allowed = "no", !.remaining = 0,
                                  !.calls = @ + 1, !.lock = None,
                                  !.threads[t] = IdleThread]
             ELSE [limiter EXCEPT !.requests = reqs,
                                  !.allowed = "yes", !.remaining = left,
                                  !.admitted = Append(@, th.now),
                                  !.returned = Append(@, [remaining |-> left,
                                                          expired |-> limiter.expired]),
                                  !.calls = @ + 1, !.lock = None,
                                  !.threads[t] = IdleThread]
       /\ UNCHANGED <<tunnels, project, recipe, platform>>

\* The clock moves followed for one key.
TicksFor(limit_type) ==
    IF max_requests(limit_type) > DEPLOY_MAX_REQUESTS THEN 1 ELSE MaxTicks

\* The clock advances between two calls.
clock_advances(dt) ==
    /\ limiter.ticks < TicksFor(limiter.limit_type)
    /\ limiter' = [limiter EXCEPT !.now = @ + dt, !.ticks = @ + 1,
                                  !.allowed = "none", !.remaining = 0,
                                  !.status = None, !.headers = {},
                                  !.invoked = FALSE]
    /\ UNCHANGED <<tunnels, project, recipe, platform>>

\* ------------------------------------------------- recipes: containers.run
\* The options of containers.run that the recipes differ in.  NoLimit is a
\* container without mem_limit; cpu_quota None is one without a quota.
NoLimit == "unlimited"
NoRun == [name |-> <<"none", None>>, restart_policy |-> "none", volumes |-> {},
          mem_limit |-> NoLimit, cpu_quota |-> None]

\* pc: "request" (the body of the submit as the client sent it), "queued"
\* (config and record written by the handler), "ran" (containers.run called
\* by the recipe).  data: the fields of the request; environ: the knobs in
\* the worker's environment, None when unset; volumePath: the column of the
\* record.
NoRecipe ==
    [pc |-> "off",
     data |-> [deploymentType |-> "static", runtime |-> "python", useDevMode |-> FALSE,
               persistentStorage |-> FALSE, autoRestart |-> TRUE],
     environ |-> [CONTAINER_MEMORY_LIMIT |-> "unset", CONTAINER_CPU_LIMIT |-> None],
     dep_id |-> None,
     config |-> [runtime |-> "python", useDevMode |-> FALSE, persistentStorage |-> FALSE,
                 autoRestart |-> TRUE, volumeName |-> <<"none", None>>],
     volumePath |-> <<"none", None>>,
     recipe |-> "none",
     run |-> NoRun]

NoVolume == <<"none", None>>

\* f"persistent_data_{dep_id}"
VolumeName(dep_id) == <<"persistent_data", dep_id>>

\* app.py:385-412 and app.py:482-530: the config handed to the job and the
\* volumePath column of the record, the same in both submit handlers
submit_config(dep_id) ==
    /\ recipe.pc = "request"
    /\ recipe' =
          [recipe EXCEPT
              !.pc = "queued",
              !.dep_id = dep_id,
              !.config = [runtime |-> recipe.data.runtime,
                          useDevMode |-> recipe.data.useDevMode,
                          persistentStorage |-> recipe.data.persistentStorage,
                          autoRestart |-> recipe.data.autoRestart,
                          volumeName |-> IF recipe.data.persistentStorage
                                         THEN VolumeName(dep_id) ELSE NoVolume],
              !.volumePath = IF recipe.data.persistentStorage
                             THEN VolumeName(dep_id) ELSE NoVolume]
    /\ UNCHANGED <<tunnels, project, limiter, platform>>

\* docker_manager.py:319-333, 617-630  volumes of a recipe that mounts them
Volumes(config) ==
    IF config.persistentStorage /\ config.volumeName # NoVolume
    THEN {<<config.volumeName, "/app/data">>}
    ELSE {}

\* os.getenv('CONTAINER_MEMORY_LIMIT', '512m')
mem_limit(environ) ==
    IF environ.CONTAINER_MEMORY_LIMIT = "unset" THEN "512m"
    ELSE environ.CONTAINER_MEMORY_LIMIT

\* int(float(os.getenv('CONTAINER_CPU_LIMIT', '0.5')) * 100000)
cpu_quota(environ) ==
    (IF environ.CONTAINER_CPU_LIMIT = None THEN DEFAULT_CPU_LIMIT
     ELSE environ.CONTAINER_CPU_LIMIT) * (CPU_PERIOD \div 10)

\* The recipe a job is run with: tasks.py:35-44, docker_manager.py:410-417
RecipeOf(deployment_type, config) ==
    IF deployment_type = "static" THEN "deploy_static_site"
    ELSE IF config.runtime = "java" THEN "deploy_java_service"
    ELSE IF config.useDevMode /\ config.runtime = "nodejs" THEN "deploy_nodejs_dev"
    ELSE "deploy_web_service"

Ran(name, options) ==
    [recipe EXCEPT !.pc = "ran", !.recipe = name, !.run = options]

\* docker_manager.py:338-351
deploy_static_site ==
    /\ recipe.pc = "queued"
    /\ RecipeOf(recipe.data.deploymentType, recipe.config) = "deploy_static_site"
    /\ recipe' = Ran("deploy_static_site",
                     [NoRun EXCEPT !.name = <<"deploy", recipe.dep_id>>,
                                   !.restart_policy = "unless-stopped",
                                   !.volumes = Volumes(recipe.config)])
    /\ UNCHANGED <<tunnels, project, limiter, platform>>

\* docker_manager.py:670-688  Python and Node.js production services
deploy_web_service ==
    /\ recipe.pc = "queued"
    /\ RecipeOf(recipe.data.deploymentType, recipe.config) = "deploy_web_service"
    /\ recipe' = Ran("deploy_web_service",
                     [name |-> <<"web", recipe.dep_id>>,
                      restart_policy |-> "unless-stopped",
                      volumes |-> Volumes(recipe.config),
                      mem_limit |-> mem_limit(recipe.environ),
                      cpu_quota |-> cpu_quota(recipe.environ)])
    /\ UNCHANGED <<tunnels, project, limiter, platform>>

\* docker_manager.py:1314-1328
deploy_nodejs_dev ==
    /\ recipe.pc = "queued"
    /\ RecipeOf(recipe.data.deploymentType, recipe.config) = "deploy_nodejs_dev"
    /\ recipe' = Ran("deploy_nodejs_dev",
                     [NoRun EXCEPT !.name = <<"dev", recipe.dep_id>>,
                                   !.restart_policy = "unless-stopped"])
    /\ UNCHANGED <<tunnels, project, limiter, platform>>

\* docker_manager.py:1494-1511
deploy_java_service ==
    /\ recipe.pc = "queued"
    /\ RecipeOf(recipe.data.deploymentType, recipe.config) = "deploy_java_service"
    /\ recipe' = Ran("deploy_java_service",
                     [NoRun EXCEPT !.name = <<"java", recipe.dep_id>>,
                                   !.restart_policy = "unless-stopped"])
    /\ UNCHANGED <<tunnels, project, limiter, platform>>

\* ------------------------------------------- recipes: Node.js base image
\* engines.node is a sequence of tokens: comparators and separators, and
\* runs of two digits.
Comparators == {"^", "~", ">=", ">", "=", "<", " ", "."}
Majors == {"14", "16", "18", "20", "21", "22", "24"}

\* int(...) of a run of two digits
Int2(digits) ==
    CASE digits = "14" -> 14
      [] digits = "16" -> 16
      [] digits = "18" -> 18
      [] digits = "20" -> 20
      [] digits = "21" -> 21
      [] digits = "22" -> 22
      [] digits = "24" -> 24

\* node_req.replace('^', '').replace('~', '').replace('>=', '')
\*         .replace('>', '').replace('=', '').strip()
Stripped(node_req) ==
    SelectSeq(node_req, LAMBDA t : t \notin {"^", "~", ">=", ">", "="})

\* re.search(r'(\d+)', cleaned): the first run of digits, None without one.
\* Runs of digits that the cleaning made adjacent are one run.
RECURSIVE DigitRun(_, _)
DigitRun(cleaned, n) ==
    IF cleaned = <<>> \/ Head(cleaned) \notin Majors THEN n
    ELSE DigitRun(Tail(cleaned), n * 100 + Int2(Head(cleaned)))

RECURSIVE FirstInteger(_)
FirstInteger(cleaned) ==
    IF cleaned = <<>> THEN None
    ELSE IF Head(cleaned) \in Majors THEN DigitRun(cleaned, 0)
    ELSE FirstInteger(Tail(cleaned))

required_version(node_req) == FirstInteger(Stripped(node_req))

\* docker_manager.py:45-79  deploy_static_site, the build stage
StaticNodeVersion(node_req) ==
    LET n == required_version(node_req)
    IN IF n = None THEN 22
       ELSE IF n >= 22 THEN 22
       ELSE IF n >= 20 THEN 20
       ELSE IF n >= 18 THEN 18
       ELSE IF n >= 16 THEN 16
       ELSE 18

\* docker_manager.py:1156-1172  _create_nodejs_dockerfile
ServiceNodeVersion(node_req) ==
    LET n == required_version(node_req)
    IN IF n = None THEN 18
       ELSE IF n >= 20 THEN 20
       ELSE IF n >= 18 THEN 18
       ELSE 16

\* docker_manager.py:1249-1261  _deploy_nodejs_dev
DevNodeVersion(node_req) ==
    LET n == required_version(node_req)
    IN IF n = None THEN 20
       ELSE IF n >= 20 THEN 20
       ELSE IF n >= 18 THEN 18
       ELSE 16

NoProject == [pc |-> "off"]

\* FROM node:{node_version}-alpine: one of the three recipes writes its
\* Dockerfile for a project whose package.json has engines.node = node_req.
node_dockerfile(recipe_name) ==
    /\ project.pc = "source"
    /\ project' =
          [project EXCEPT
              !.pc = "dockerfile",
              !.recipe = recipe_name,
              !.node_version =
                  CASE recipe_name = "deploy_static_site" ->
                          StaticNodeVersion(project.node_req)
                    [] recipe_name = "_create_nodejs_dockerfile" ->
                          ServiceNodeVersion(project.node_req)
                    [] recipe_name = "_deploy_nodejs_dev" ->
                          DevNodeVersion(project.node_req)]
    /\ UNCHANGED <<tunnels, recipe, limiter, platform>>

\* -------------------------------------------------------- Project Detector
\* A project directory as ProjectDetector reads it.  files: the marker
\* files found by _scan_directory; requirements: the names that occur in
\* the lower-cased text of requirements.txt; package: package.json, absent,
\* unparsable (json.loads raises), or parsed with the names in dependencies
\* and devDependencies and whether scripts has a build and a start entry.
MarkerFiles == {"requirements.txt", "app.py", "main.py", "manage.py", "pom.xml",
                "build.gradle", "package.json", "server.js", "index.js", "index.html"}

NoPackage == [state |-> "absent", dependencies |-> {}, build |-> FALSE,
              start |-> FALSE]

PythonWebFrameworks == {"django", "flask", "fastapi", "uvicorn", "starlette"}
FrontendDeps == {"vite", "next", "gatsby", "vue", "react", "angular", "svelte"}
ServerDeps == {"express", "koa", "fastify", "hapi", "nestjs"}

\* What a method of the detector hands back: a detection, or the exception
\* that left it (status "raised").
NoConfig == [k \in {} |-> ""]

Detection(type, runtime, buildTool) ==
    [status |-> "returned", type |-> type, runtime |-> runtime,
     buildTool |-> buildTool, framework |-> "none", config |-> NoConfig,
     recommendations |-> <<>>]

Raised == [Detection("none", "none", "none") EXCEPT !.status = "raised"]
NoMatch == [Detection("none", "none", "none") EXCEPT !.status = "no_match"]

\* A package.json block that asks for a server dependency first.
PackageRuleServerFirst(dir) ==
    IF dir.package.state = "unparsable" THEN Raised
    ELSE IF dir.package.dependencies \cap ServerDeps # {}
    THEN Detection("service", "nodejs", "none")
    ELSE IF dir.package.dependencies \cap FrontendDeps # {} /\ dir.package.build
    THEN Detection("static", "nodejs", "none")
    ELSE IF "server.js" \in dir.files \/ "index.js" \in dir.files
    THEN Detection("service", "nodejs", "none")
    ELSE IF dir.package.build THEN Detection("static", "nodejs", "none")
    ELSE NoMatch

\* auto_detector.py:77-93  the package.json block
PackageRule(dir) ==
    IF dir.package.state = "unparsable" THEN Raised
    ELSE IF dir.package.dependencies \cap FrontendDeps # {} /\ dir.package.build
    THEN Detection("static", "nodejs", "none")
    ELSE IF dir.package.dependencies \cap ServerDeps # {}
    THEN Detection("service", "nodejs", "none")
    ELSE IF "server.js" \in dir.files \/ "index.js" \in dir.files
    THEN Detection("service", "nodejs", "none")
    ELSE IF dir.package.build THEN Detection("static", "nodejs", "none")
    ELSE NoMatch

\* ProjectDetector._detect_project_type
detect_project_type(dir) ==
    IF /\ "requirements.txt" \in dir.files
       /\ dir.requirements \cap PythonWebFrameworks # {}
    THEN Detection("service", "python", "none")
    ELSE IF dir.files \cap {"app.py", "main.py", "manage.py"} # {}
    THEN Detection("service", "python", "none")
    ELSE IF "pom.xml" \in dir.files THEN Detection("service", "java", "maven")
    ELSE IF "build.gradle" \in dir.files THEN Detection("service", "java", "gradle")
    ELSE IF "package.json" \in dir.files /\ PackageRule(dir) # NoMatch
    THEN PackageRule(dir)
    ELSE IF "index.html" \in dir.files THEN Detection("static", "static", "none")
    ELSE Detection("static", "static", "none")

\* ProjectDetector._detect_python_framework
detect_python_framework(dir) ==
    IF "manage.py" \in dir.files THEN "django"
    ELSE IF "requirements.txt" \notin dir.files THEN "python"
    ELSE IF "django" \in dir.requirements THEN "django"
    ELSE IF "fastapi" \in dir.requirements THEN "fastapi"
    ELSE IF "flask" \in dir.requirements THEN "flask"
    ELSE "python"

\* ProjectDetector._detect_nodejs_framework
detect_nodejs_framework(dir) ==
    IF "package.json" \notin dir.files THEN "nodejs"
    ELSE IF "next" \in dir.package.dependencies THEN "nextjs"
    ELSE IF "vite" \in dir.package.dependencies THEN "react-vite"
    ELSE IF "vue" \in dir.package.dependencies THEN "vue"
    ELSE IF "express" \in dir.package.dependencies THEN "express"
    ELSE "nodejs"

\* ProjectDetector._detect_java_framework
detect_java_framework(dir) ==
    IF "pom.xml" \in dir.files THEN "maven"
    ELSE IF "build.gradle" \in dir.files THEN "gradle"
    ELSE "java"

\* ProjectDetector._detect_framework
detect_framework(dir, detection) ==
    CASE detection.runtime = "python" -> detect_python_framework(dir)
      [] detection.runtime = "nodejs" -> detect_nodejs_framework(dir)
      [] detection.runtime = "java" -> detect_java_framework(dir)
      [] OTHER -> "html"

\* ProjectDetector._generate_static_config
generate_static_config(framework) ==
    CASE framework = "react-vite" ->
            [buildCommand |-> "npm install && npm run build", publishDir |-> "dist"]
      [] framework = "nextjs" ->
            [buildCommand |-> "npm install && npm run build && npm run export",
             publishDir |-> "out"]
      [] framework = "html" ->
            [buildCommand |-> "echo \"No build needed\"", publishDir |-> "."]
      [] OTHER ->
            [buildCommand |-> "npm install && npm run build", publishDir |-> "dist"]

\* ProjectDetector._generate_python_config
generate_python_config(dir, framework) ==
    LET has_gunicorn == /\ "requirements.txt" \in dir.files
                        /\ "gunicorn" \in dir.requirements
    IN CASE framework = "django" ->
               [runtime |-> "python", entryFile |-> "manage.py", port |-> "8000",
                startCommand |->
                    IF has_gunicorn
                    THEN "gunicorn <project_name>.wsgi:application --bind 0.0.0.0:8000"
                    ELSE "python manage.py runserver 0.0.0.0:8000"]
         [] framework = "flask" ->
               [runtime |-> "python", entryFile |-> "app.py", port |-> "5000",
                startCommand |->
                    IF has_gunicorn THEN "gunicorn app:app --bind 0.0.0.0:5000"
                    ELSE "python app.py"]
         [] OTHER ->
               [runtime |-> "python", entryFile |-> "app.py", port |-> "5000",
                startCommand |-> ""]

\* ProjectDetector._generate_nodejs_config
generate_nodejs_config(dir, framework) ==
    [runtime |-> "nodejs", entryFile |-> "index.js", port |-> "3000",
     startCommand |-> IF "package.json" \in dir.files /\ dir.package.start
                      THEN "npm start" ELSE "node index.js"]

\* ProjectDetector._generate_service_config
generate_service_config(dir, runtime, framework) ==
    CASE runtime = "python" -> generate_python_config(dir, framework)
      [] runtime = "nodejs" -> generate_nodejs_config(dir, framework)
      [] OTHER -> NoConfig

\* ProjectDetector._generate_config
generate_config(dir, detection) ==
    IF detection.type = "static" THEN generate_static_config(detection.framework)
    ELSE generate_service_config(dir, detection.runtime, detection.framework)

\* ProjectDetector.detect_all
detect_all(dir) ==
    LET detection == detect_project_type(dir)
        framed == [detection EXCEPT !.framework = detect_framework(dir, detection)]
    IN IF detection.status = "raised" THEN Raised
       ELSE [framed EXCEPT !.config = generate_config(dir, framed)]

\* ProjectDetector.get_smart_suggestions
get_smart_suggestions(dir) ==
    LET detection == detect_all(dir)
        conf == detection.config
        keys == IF detection.type = "static" THEN <<"buildCommand", "publishDir">>
                ELSE <<"startCommand", "port">>
        labels == IF detection.type = "static" THEN <<"Build", "Publish">>
                  ELSE <<"Start", "Port">>
    IN IF detection.status = "raised" THEN Raised
       ELSE IF keys[1] \notin DOMAIN conf \/ keys[2] \notin DOMAIN conf THEN Raised
       ELSE [detection EXCEPT !.recommendations =
                 <<<<labels[1], conf[keys[1]]>>, <<labels[2], conf[keys[2]]>>>>]

\* One method of the detector is called on the scanned directory.
detector_call(method) ==
    /\ project.pc = "scanned"
    /\ project' =
          [project EXCEPT
              !.pc = "answered",
              !.method = method,
              !.out = CASE method = "_detect_project_type" ->
                              detect_project_type(project.dir)
                        [] method = "detect_all" -> detect_all(project.dir)
                        [] method = "get_smart_suggestions" ->
                              get_smart_suggestions(project.dir)]
    /\ UNCHANGED <<tunnels, recipe, limiter, platform>>

\* ------------------------------------------- recipes: the Python command
\* A Python project as _create_python_dockerfile reads it.  requirements,
\* pipfile: the names that occur in the lower-cased text of requirements.txt
\* and of Pipfile; settings: manage.py names DJANGO_SETTINGS_MODULE, or a
\* directory below the root holds settings.py; procfile: "absent", "other"
\* (no web: line, or an empty one) or "web"; start_command: the user's
\* startCommand is not empty.
\* docker_manager.py:768  the requirements.txt written when the project
\* has neither requirements.txt nor Pipfile
DefaultRequirements == {"flask", "gunicorn"}

GUNICORN_DJANGO ==
    "gunicorn {project_name}.wsgi:application --bind 0.0.0.0:{port} --workers 3 --timeout 120"
RUNSERVER == "python manage.py runserver 0.0.0.0:{port}"
PROCFILE_WEB == "{procfile_cmd}"

\* docker_manager.py:762-769
EffectiveRequirements(dir) ==
    IF ~dir.has_requirements /\ ~dir.has_pipfile THEN DefaultRequirements
    ELSE IF dir.has_requirements THEN dir.requirements
    ELSE {}

\* docker_manager.py:785-792
is_django(dir) ==
    IF dir.has_requirements \/ ~dir.has_pipfile
    THEN "django" \in EffectiveRequirements(dir)
    ELSE "django" \in dir.pipfile \/ dir.has_manage_py

\* docker_manager.py:794-811, 856-858  project_name is set
HasProjectName(dir) == is_django(dir) /\ dir.has_manage_py /\ dir.settings

\* docker_manager.py:860-867
default_django_start(dir) ==
    IF HasProjectName(dir) /\ "gunicorn" \in EffectiveRequirements(dir)
    THEN GUNICORN_DJANGO
    ELSE IF dir.procfile = "web" THEN PROCFILE_WEB
    ELSE RUNSERVER

\* docker_manager.py:876-904  the command of the CMD line; shell: it is
\* run by sh -c after the Django start-up steps
PythonCommand(dir) ==
    LET req == EffectiveRequirements(dir)
    IN IF dir.start_command
       THEN [command |-> "{start_command}", shell |-> is_django(dir)]
       ELSE IF is_django(dir)
       THEN [command |-> default_django_start(dir), shell |-> TRUE]
       ELSE IF "fastapi" \in req \/ "uvicorn" \in req
       THEN [command |-> "uvicorn main:app --host 0.0.0.0 --port {port}",
             shell |-> FALSE]
       ELSE IF "gunicorn" \in req /\ "django" \notin req
       THEN [command |-> "gunicorn --bind 0.0.0.0:{port} {app_name}:app",
             shell |-> FALSE]
       ELSE [command |-> "python -m flask run --host=0.0.0.0 --port={port}",
             shell |-> FALSE]

\* DockerManager._create_python_dockerfile
create_python_dockerfile ==
    /\ project.pc = "source"
    /\ project' = [project EXCEPT !.pc = "dockerfile", !.cmd = PythonCommand(project.dir)]
    /\ UNCHANGED <<tunnels, recipe, limiter, platform>>

\* -------------------------------------------------------------- initially
\* result: how the last run_deployment_task call ended ("returned" on the
\* success path, "failed" on the except path, "raised" when the exception
\* left the function), "none" before the first call and during a call.
\* config: the part of the job's config that selects the recipe; error:
\* what raised inside the recipe, "none" when nothing did.
IdleWorker == [pc |-> "idle", dep_id |-> None, deployment_type |-> "static",
               config |-> [runtime |-> "python", useDevMode |-> FALSE],
               container_id |-> None, port |-> None, dep |-> NoRec,
               result |-> "none", error |-> "none"]

\* frames: the Log Bus records forwarded as data: frames so far;
\* attached_at: the length of the list when the loop was entered; ended:
\* the deploy_stream responses that ended before their tail loop so far.
NoStream == [pc |-> "off", id |-> None, last_idx |-> 0, logs |-> <<>>,
             frames |-> <<>>, empty_reads |-> 0, attached_at |-> 0, ended |-> 0]

\* dep: the handler's copy of the record; deps: the copy of the table that
\* get_deployments holds.  pc = "done" after a read handler has answered,
\* with dep (deps) the body of its response; status: the HTTP status of
\* the answer to a submit that was turned down.
IdleApi == [pc |-> "idle", op |-> "none", id |-> None, dep |-> NoRec, version |-> None,
            deps |-> <<>>, status |-> None]

Init ==
    /\ db_type \in DbTypes
    /\ deployments = [d \in DepIds |-> NoRec]
    /\ deployment_versions = <<>>
    /\ q = <<>>
    /\ logs = [d \in DepIds |-> <<>>]
    /\ containers = <<>>
    /\ worker = IdleWorker
    /\ sse = NoStream
    /\ api = IdleApi
    /\ submits = 0
    /\ faults = 0
    /\ calls = 0
    /\ exits = 0
    /\ tunnels = NoTunnels
    /\ limiter = FreshLimiter("api")
    /\ recipe = NoRecipe
    /\ project = NoProject

\* The events counted against MaxEvents so far: the submits after the
\* first, the Redis faults, the management requests, the container exits
\* and the tail loop that is followed.
Events ==
    (IF submits > 0 THEN submits - 1 ELSE 0) + faults + calls + exits
        + (IF sse.pc \in {"off", "ended"} THEN 0 ELSE 1)

MayHappen == Events < MaxEvents

\* A Redis call either succeeds (pushed) or raises, which counts as a fault.
Redis(pushed) ==
    /\ ~pushed => MayHappen
    /\ faults' = IF pushed THEN faults ELSE faults + 1

\* ---------------------------------------------------------- SSE tail loop
\* last_idx = 0, empty_reads = 0 as the tail loop is entered
Attached(id) == [NoStream EXCEPT !.pc = "poll", !.id = id,
                                 !.attached_at = Len(logs[id])]

\* One tail loop is followed in a behaviour.
StreamFree == sse.pc = "off"

\* A read that starts one record too far.
lrange_skipping(list, start) == SubSeq(list, start + 2, Len(list))

\* redis_conn.lrange(key, start, -1): the records from offset start on
lrange(list, start) == SubSeq(list, start + 1, Len(list))

\* A loop that takes no record for the done record.
NeverDone(log_json) == FALSE

\* log_json.get('type') == 'done'
IsDone(log_json) == log_json.type = "done"

\* GET /deployments/{id}/stream
stream_logs_endpoint(deployment_id) ==
    /\ StreamFree
    /\ MayHappen
    /\ sse' = Attached(deployment_id)
    /\ UNCHANGED <<tunnels, project, recipe, limiter, db_type, deployments, deployment_versions, q, logs, containers,
                   worker, api, submits, faults, calls, exits>>

\* A loop that waits for records for ever.
NeverTimedOut(empty_reads) == FALSE

\* if empty_reads > 2400
TimedOut(empty_reads) == empty_reads > EMPTY_READS_LIMIT

\* One pass of `while True`: the read, and without records the count of
\* empty reads, the timeout frame after more than EMPTY_READS_LIMIT of them,
\* or the sleep.  followed: the consecutive empty reads that are followed.
sse_poll(followed) ==
    LET read == lrange(logs[sse.id], sse.last_idx)
    IN /\ sse.pc = "poll"
       /\ read = <<>> => sse.empty_reads < followed
       /\ sse' = IF read # <<>>
                 THEN [sse EXCEPT !.logs = read, !.empty_reads = 0, !.pc = "forward"]
                 ELSE IF TimedOut(sse.empty_reads + 1)
                 THEN [sse EXCEPT !.empty_reads = @ + 1, !.pc = "timed_out",
                                  !.frames = Append(@, Event("error", "timeout"))]
                 ELSE [sse EXCEPT !.empty_reads = @ + 1]
       /\ UNCHANGED <<tunnels, project, recipe, limiter, db_type, deployments, deployment_versions, q, logs, containers,
                      worker, api, submits, faults, calls, exits>>

\* One pass of `for log_raw in logs`: the offset advances, the record is
\* forwarded, and a done record ends the stream.
sse_forward ==
    LET log_raw == Head(sse.logs)
    IN /\ sse.pc = "forward"
       /\ sse' = [sse EXCEPT !.last_idx = @ + 1,
                             !.frames = Append(@, log_raw),
                             !.logs = Tail(@),
                             !.pc = IF IsDone(log_raw) THEN "closed"
                                    ELSE IF Tail(sse.logs) = <<>> THEN "poll"
                                    ELSE "forward"]
       /\ UNCHANGED <<tunnels, project, recipe, limiter, db_type, deployments, deployment_versions, q, logs, containers,
                      worker, api, submits, faults, calls, exits>>

Sse ==
    \/ \E d \in DepIds : stream_logs_endpoint(d)
    \/ sse_poll(MaxEmptyReads)
    \/ sse_forward

\* ----------------------------------------------------------------- submit
\* timestamp: "submitted" for the time of a submit, "rolled back" for the
\* time of a rollback; customDomain <<"none", None>> is 'customDomain': None;
\* the volume is the one of a submit without persistentStorage.
deployment_record(dep_id, deployment_type, status, source) ==
    [id |-> dep_id, deploymentType |-> deployment_type, status |-> status,
     url |-> <<"proxy", dep_id>>, directUrl |-> NoUrl, timestamp |-> "submitted",
     containerId |-> None, port |-> None, source |-> source,
     config |-> [environmentVariables |-> <<>>], environmentVariables |-> <<>>,
     version |-> 1, customDomain |-> <<"none", None>>, volumePath |-> NoVolume]

\* q.enqueue(run_deployment_task, dep_id, proj_dir, deployment_type, config)
Job(dep_id, deployment_type) ==
    [dep_id |-> dep_id, deployment_type |-> deployment_type,
     config |-> IdleWorker.config]

\* The status deploy_stream writes in its first record (app.py:398).
StreamInitialStatus == "building"
\* The status deploy_local writes in its first record (app.py:518).
LocalInitialStatus == "queued"

\* app.py:365, 371  the frames generate() yields before the clone
QueuingFrames == <<Event("info", "queuing"), Event("info", "cloning")>>

\* app.py:375-382  the frames of a failed clone; the generator returns
\* after them
CloneFailedFrames ==
    QueuingFrames \o <<Event("error", "clone failed"), failure_payload>>

\* The response of a deploy_stream whose generator ended before the tail
\* loop: the frames it yielded.
EndedStream(dep_id, frames) ==
    [NoStream EXCEPT !.pc = "ended", !.id = dep_id, !.frames = frames,
                     !.ended = sse.ended + 1]

\* POST /deploy-stream whose clone failed on both branches
\* (GitHubHandler.clone_repo raises): error and done frames from the
\* handler itself, nothing written.
deploy_stream_clone_failed(dep_id) ==
    /\ submits = 0 \/ MayHappen
    /\ sse.pc \in {"off", "ended"}
    /\ submits' = submits + 1
    /\ sse' = EndedStream(dep_id, CloneFailedFrames)
    /\ UNCHANGED <<tunnels, project, recipe, limiter, db_type, deployments, deployment_versions, q, logs,
                   containers, worker, api, faults, calls, exits>>

\* The answer to a submit that ended before its record was written.
Answered(op, status) == [IdleApi EXCEPT !.pc = "done", !.op = op, !.status = status]

\* POST /deploy-stream with a body that lacks something.  missing: "json"
\* (request.is_json is false), "projectName", "githubRepo" (app.py:351-358,
\* answered before the response is a stream), or "deploymentType"
\* (app.py:384: data['deploymentType'] raises KeyError inside generate()
\* after the clone, and the except block at app.py:460-462 yields one error
\* frame on the stream that was opened with status 200).
deploy_stream_bad_request(missing, dep_id) ==
    /\ api.pc # "busy"
    /\ MayHappen
    /\ calls' = calls + 1
    /\ IF missing = "deploymentType"
       THEN /\ sse.pc \in {"off", "ended"}
            /\ api' = Answered("deploy_stream", OK)
            /\ sse' = EndedStream(dep_id,
                          QueuingFrames \o <<Event("error", "Server Error")>>)
       ELSE /\ api' = Answered("deploy_stream", BAD_REQUEST)
            /\ sse' = sse
    /\ UNCHANGED <<tunnels, project, recipe, limiter, db_type, deployments, deployment_versions, q, logs,
                   containers, worker, submits, faults, exits>>

\* POST /deploy-local turned down.  problem: "no_file" ('file' not in
\* request.files, app.py:475-476) or "bad_zip" (zipfile.ZipFile raises
\* BadZipFile at app.py:499, answered by the except block at app.py:549-551).
deploy_local_bad_request(problem) ==
    /\ api.pc # "busy"
    /\ MayHappen
    /\ calls' = calls + 1
    /\ api' = Answered("deploy_local",
                       IF problem = "no_file" THEN BAD_REQUEST
                       ELSE INTERNAL_SERVER_ERROR)
    /\ UNCHANGED <<tunnels, project, recipe, limiter, db_type, deployments, deployment_versions, q, logs,
                   containers, worker, sse, submits, faults, exits>>

\* POST /deploy-stream: record, version row, enqueue, then the tail loop.
\* enqueued = FALSE is q.enqueue raising; tail = FALSE is a client that
\* drops the connection before the tail loop is followed.
deploy_stream(dep_id, deployment_type, enqueued, tail) ==
    LET record == deployment_record(dep_id, deployment_type,
                                    StreamInitialStatus, "github")
    IN /\ submits = 0 \/ MayHappen
       /\ tail => /\ enqueued
                   /\ StreamFree
                   /\ Events + (IF submits > 0 THEN 1 ELSE 0) < MaxEvents
       /\ Redis(enqueued)
       /\ submits' = submits + 1
       /\ deployments' = save_deployment(deployments, record)
       /\ deployment_versions' = VersionsAfterSave(deployment_versions, record)
       /\ containers' = ContainersAfterVersionSave(deployment_versions, containers, record)
       /\ q' = IF enqueued THEN Append(q, Job(dep_id, deployment_type)) ELSE q
       /\ sse' = IF tail THEN Attached(dep_id) ELSE sse
       /\ UNCHANGED <<tunnels, project, recipe, limiter, db_type, logs, worker, api, calls, exits>>

\* POST /deploy-local: record, version row, enqueue; an exception of
\* q.enqueue is answered 500 with the record already written.
deploy_local(dep_id, deployment_type, enqueued) ==
    LET record == deployment_record(dep_id, deployment_type,
                                    LocalInitialStatus, "local")
    IN /\ submits = 0 \/ MayHappen
       /\ Redis(enqueued)
       /\ submits' = submits + 1
       /\ deployments' = save_deployment(deployments, record)
       /\ deployment_versions' = VersionsAfterSave(deployment_versions, record)
       /\ containers' = ContainersAfterVersionSave(deployment_versions, containers, record)
       /\ q' = IF enqueued THEN Append(q, Job(dep_id, deployment_type)) ELSE q
       /\ UNCHANGED <<tunnels, project, recipe, limiter, db_type, logs, worker, sse, api, calls, exits>>

\* The ids a submit may draw: any id already drawn, or a new one.  Ids are
\* interchangeable, so the new one is the next unused number.
DrawnIds == {d \in DepIds : d <= submits + 1}

\* The requests followed: a service from a repository, a static site from
\* an archive.
StreamType == "service"
LocalType == "static"

BadSubmit ==
    \/ \E missing \in {"json", "projectName", "githubRepo", "deploymentType"},
          d \in DrawnIds : deploy_stream_bad_request(missing, d)
    \/ \E problem \in {"no_file", "bad_zip"} : deploy_local_bad_request(problem)

Submit ==
    \E d \in DrawnIds :
        \/ deploy_stream_clone_failed(d)
        \/ \E enqueued \in BOOLEAN : deploy_stream(d, StreamType, enqueued, FALSE)
        \/ \E enqueued \in BOOLEAN : deploy_local(d, LocalType, enqueued)

\* ------------------------------------------------- management requests
\* A handler reads the record (api_read), then does the rest of its work
\* with that copy (the *_finish actions); other processes run in between.
ApiOps == {"get_deployment", "restart_deployment", "rollback_deployment",
           "update_environment_variables", "delete_deployment"}

\* dep = db_manager.get_deployment(deployment_id); 404 without a record
api_read(op, id, version) ==
    /\ api.pc \in {"idle", "done"}
    /\ MayHappen
    /\ calls' = calls + 1
    /\ api' = IF get_deployment(deployments, id) = NoRec THEN IdleApi
              ELSE [IdleApi EXCEPT !.pc = "busy", !.op = op, !.id = id,
                                   !.dep = get_deployment(deployments, id),
                                   !.version = version]
    /\ UNCHANGED <<tunnels, project, recipe, limiter, db_type, deployments, deployment_versions, q, logs, containers,
                   worker, sse, submits, faults, exits>>

\* A guard that lets every record through.
AnyRecord(dep) == TRUE

\* app.py:583, 585  the records whose status a read reconciles
Reconcilable(dep) ==
    dep.containerId # None /\ dep.status \notin {"building", "queued"}

\* new_status = 'active' if docker_status == 'running' else docker_status
NewStatus(docker_status) ==
    IF docker_status = "running" THEN "active" ELSE docker_status

\* app.py:583-588  read-time reconciliation of one record
Reconciled(dep, cs) ==
    IF Reconcilable(dep)
    THEN [dep EXCEPT !.status = NewStatus(get_container_status(cs, dep.containerId))]
    ELSE dep

get_deployment_finish ==
    /\ api.pc = "busy" /\ api.op = "get_deployment"
    /\ deployments' = IF Reconcilable(api.dep)
                      THEN save_deployment(deployments, Reconciled(api.dep, containers))
                      ELSE deployments
    /\ api' = [api EXCEPT !.pc = "done", !.dep = Reconciled(api.dep, containers)]
    /\ UNCHANGED <<tunnels, project, recipe, limiter, db_type, deployment_versions, q, logs, containers, worker, sse,
                   submits, faults, calls, exits>>

\* GET /deployments: the handler's copy of every row
get_deployments_read ==
    /\ api.pc \in {"idle", "done"}
    /\ MayHappen
    /\ calls' = calls + 1
    /\ api' = [IdleApi EXCEPT !.pc = "busy", !.op = "get_deployments",
                              !.deps = deployments]
    /\ UNCHANGED <<tunnels, project, recipe, limiter, db_type, deployments, deployment_versions, q, logs, containers,
                   worker, sse, submits, faults, exits>>

\* app.py:563-570  reconciliation of one record of the list: a container
\* the engine does not find leaves the record alone
ReconciledInList(dep, cs) ==
    IF /\ dep # NoRec
       /\ Reconcilable(dep)
       /\ get_container_status(cs, dep.containerId) # "not_found"
    THEN [dep EXCEPT !.status = NewStatus(get_container_status(cs, dep.containerId))]
    ELSE dep

\* for deployment in deployments: save when the status changed
RECURSIVE SaveReconciled(_, _, _, _)
SaveReconciled(tbl, deps, d, cs) ==
    IF d > NumIds THEN tbl
    ELSE SaveReconciled(IF ReconciledInList(deps[d], cs) # deps[d]
                        THEN save_deployment(tbl, ReconciledInList(deps[d], cs))
                        ELSE tbl,
                        deps, d + 1, cs)

get_deployments_finish ==
    /\ api.pc = "busy" /\ api.op = "get_deployments"
    /\ deployments' = SaveReconciled(deployments, api.deps, 1, containers)
    /\ api' = [api EXCEPT !.pc = "done",
                          !.deps = [d \in DepIds |->
                                       ReconciledInList(api.deps[d], containers)]]
    /\ UNCHANGED <<tunnels, project, recipe, limiter, db_type, deployment_versions, q, logs, containers, worker, sse,
                   submits, faults, calls, exits>>

\* container.restart(timeout=10): a container that exists runs afterwards
Restarted(cs, cid) ==
    IF Exists(cs, cid) THEN [cs EXCEPT ![cid].status = "running"] ELSE cs

restart_deployment_finish ==
    /\ api.pc = "busy" /\ api.op = "restart_deployment"
    /\ containers' = Restarted(containers, api.dep.containerId)
    /\ api' = IdleApi
    /\ UNCHANGED <<tunnels, project, recipe, limiter, db_type, deployments, deployment_versions, q, logs, worker, sse,
                   submits, faults, calls, exits>>

\* app.py:706-711  the version row a rollback targets; NoRow when the
\* requested version does not exist
NoRow == [deployment_id |-> None, version |-> None, containerId |-> None]

RollbackTarget(history, target_version) ==
    IF target_version # None
    THEN IF \E i \in 1..Len(history) : history[i].version = target_version
         THEN history[CHOOSE i \in 1..Len(history) :
                         /\ history[i].version = target_version
                         /\ \A j \in 1..(i - 1) : history[j].version # target_version]
         ELSE NoRow
    ELSE history[Len(history)]

\* app.py:699-731; the answer keeps the handler's copy of the record and
\* the status of the response
rollback_deployment_finish ==
    LET history == get_deployment_versions(deployment_versions, api.id)
        target == RollbackTarget(history, api.version)
        stopped == stop_container(containers, api.dep.containerId)
        started == Exists(stopped, target.containerId)
    IN /\ api.pc = "busy" /\ api.op = "rollback_deployment"
       /\ api' = [Answered("rollback_deployment",
                           IF history = <<>> THEN BAD_REQUEST
                           ELSE IF target = NoRow THEN NOT_FOUND
                           ELSE IF started THEN OK
                           ELSE INTERNAL_SERVER_ERROR)
                     EXCEPT !.id = api.id, !.dep = api.dep]
       /\ IF history = <<>>
          THEN UNCHANGED <<tunnels, deployments, containers>>
          ELSE IF target = NoRow
          THEN UNCHANGED <<tunnels, deployments, containers>>
          ELSE IF started
          THEN /\ containers' = Restarted(stopped, target.containerId)
               /\ deployments' = save_deployment(deployments,
                      [api.dep EXCEPT !.containerId = target.containerId,
                                      !.config = [environmentVariables |-> <<>>],
                                      !.timestamp = "rolled back",
                                      !.version = target.version])
          ELSE /\ containers' = stopped
               /\ UNCHANGED deployments
       /\ UNCHANGED <<tunnels, project, recipe, limiter, db_type, deployment_versions, q, logs, worker, sse,
                      submits, faults, calls, exits>>

\* app.py:745-753  the variables of the request are set on the handler's
\* copy, the copy is saved, then the container is restarted
update_environment_variables_finish ==
    /\ api.pc = "busy" /\ api.op = "update_environment_variables"
    /\ deployments' =
          LET env_vars == <<"KEY=VALUE">>
          IN save_deployment(deployments,
                 [api.dep EXCEPT !.config.environmentVariables = env_vars,
                                 !.environmentVariables = env_vars])
    /\ containers' = Restarted(containers, api.dep.containerId)
    /\ api' = IdleApi
    /\ UNCHANGED <<tunnels, project, recipe, limiter, db_type, deployment_versions, q, logs, worker, sse,
                   submits, faults, calls, exits>>

\* The containers of the version rows of one deployment are stopped.
RECURSIVE StopAll(_, _)
StopAll(cs, versions) ==
    IF versions = <<>> THEN cs
    ELSE StopAll(stop_container(cs, Head(versions).containerId), Tail(versions))

\* app.py:603-620
delete_deployment_finish ==
    /\ api.pc = "busy" /\ api.op = "delete_deployment"
    /\ containers' = StopAll(stop_container(containers, api.dep.containerId),
                             get_deployment_versions(deployment_versions, api.id))
    /\ deployments' = [deployments EXCEPT ![api.id] = NoRec]
    /\ deployment_versions' = db_delete_versions(deployment_versions, api.id)
    /\ api' = IdleApi
    /\ UNCHANGED <<tunnels, project, recipe, limiter, db_type, q, logs, worker, sse, submits, faults, calls, exits>>

ControlApi ==
    \/ \E op \in ApiOps \ {"rollback_deployment"}, d \in DepIds : api_read(op, d, None)
    \/ \E d \in DepIds, v \in {None, 1, 2} : api_read("rollback_deployment", d, v)
    \/ get_deployments_read
    \/ get_deployment_finish
    \/ get_deployments_finish
    \/ restart_deployment_finish
    \/ rollback_deployment_finish
    \/ update_environment_variables_finish
    \/ delete_deployment_finish

\* ----------------------------------------------------------------- engine
\* A running container exits on its own.
container_exit(cid) ==
    /\ cid \in DOMAIN containers
    /\ containers[cid].status = "running"
    /\ MayHappen
    /\ exits' = exits + 1
    /\ containers' = [containers EXCEPT ![cid].status = "exited"]
    /\ UNCHANGED <<tunnels, project, recipe, limiter, db_type, deployments, deployment_versions, q, logs, worker, sse,
                   api, submits, faults, calls>>

Engine == \E cid \in DOMAIN containers : container_exit(cid)

\* ------------------------------------------- executor: run_deployment_task
\* Every Redis call (emit_log_redis, r.rpush) either appends or raises:
\* pushed = FALSE is the call raising.  A step that raises inside the try
\* block continues at the except block (pc "except").

\* tasks.py:29  the worker dequeues the job and emits the pick-up event
task_pickup(pushed) ==
    /\ worker.pc = "idle"
    /\ Redis(pushed)
    /\ q # <<>>
    /\ q' = Tail(q)
    /\ worker' = [IdleWorker EXCEPT !.pc = IF pushed THEN "build" ELSE "except",
                                    !.dep_id = Head(q).dep_id,
                                    !.deployment_type = Head(q).deployment_type,
                                    !.config = Head(q).config,
                                    !.error = IF pushed THEN "none" ELSE "log_raised"]
    /\ logs' = IF pushed
               THEN emit_log_redis(logs, Head(q).dep_id, "picked up", "info")
               ELSE logs
    /\ UNCHANGED <<tunnels, project, recipe, limiter, db_type, deployments, deployment_versions, containers, sse, api,
                   submits, calls, exits>>

\* The recipe the worker runs its job with.
WorkerRecipe == RecipeOf(worker.deployment_type, worker.config)

\* The recipes that remove the old container of the derived name before
\* they build (docker_manager.py:262-270, 490-498); _deploy_nodejs_dev and
\* deploy_java_service have no such step.
CleaningRecipes == {"deploy_static_site", "deploy_web_service"}

\* A recipe up to the image build: the first log line, the removal of the
\* old container of that name (where the recipe has it), the build.
\* outcome: "built", "build_failed", or "log_raised" (the first log call
\* raises before anything is touched).
deploy_build(outcome) ==
    /\ worker.pc = "build"
    /\ Redis(outcome # "log_raised")
    /\ worker' = IF outcome = "built" THEN [worker EXCEPT !.pc = "run"]
                 ELSE [worker EXCEPT !.pc = "except", !.error = outcome]
    /\ logs' = IF outcome = "log_raised" THEN logs
               ELSE emit_log_redis(logs, worker.dep_id, "building", "log")
    /\ containers' = IF outcome = "log_raised" \/ WorkerRecipe \notin CleaningRecipes
                     THEN containers
                     ELSE RemoveByName(containers,
                              ContainerName(WorkerRecipe, worker.dep_id))
    /\ UNCHANGED <<tunnels, project, recipe, limiter, db_type, deployments, deployment_versions, q, sse, api,
                   submits, calls, exits>>

NewContainer(status, recipe_name, dep_id, port) ==
    [status |-> status, name |-> ContainerName(recipe_name, dep_id),
     deployment_id |-> dep_id, port |-> port]

\* The engine refuses a second container of a name that is in use.
NameInUse(cs, name) == \E c \in DOMAIN cs : Exists(cs, c) /\ cs[c].name = name

\* containers.run and the wait for `running`.
\* "running": the container runs and its id and mapped port are returned;
\* "exited": it did not reach running, is removed, and the call raises;
\* "no_port": it runs but the read of its port mapping raises: the except
\* block around containers.run removes it in deploy_static_site and
\* deploy_web_service (docker_manager.py:382-388, 741-754), the other two
\* recipes have no such block and only log and re-raise;
\* "conflict": the name is in use, containers.run raises and nothing is
\* created;
\* "log_raised": it runs, a log call raises, the handler's own log call
\* raises again before container.remove, and the call raises.
deploy_run(outcome, port) ==
    LET cid == Len(containers) + 1
        name == ContainerName(WorkerRecipe, worker.dep_id)
        removed == \/ outcome = "exited"
                   \/ outcome = "no_port" /\ WorkerRecipe \in CleaningRecipes
    IN /\ worker.pc = "run"
       /\ port \in FreePorts(containers)
       /\ outcome = "conflict" <=> NameInUse(containers, name)
       /\ Redis(outcome # "log_raised")
       /\ containers' =
              IF outcome = "conflict" THEN containers
              ELSE Append(containers,
                       IF removed THEN NoContainer
                       ELSE NewContainer("running", WorkerRecipe, worker.dep_id, port))
       /\ logs' = IF outcome = "log_raised" THEN logs
                  ELSE emit_log_redis(logs, worker.dep_id,
                           IF outcome = "running" THEN "deployed" ELSE "container failed",
                           "log")
       /\ worker' = IF outcome = "running"
                    THEN [worker EXCEPT !.pc = "update_read",
                                        !.container_id = cid, !.port = port]
                    ELSE [worker EXCEPT !.pc = "except", !.error = outcome]
       /\ UNCHANGED <<tunnels, project, recipe, limiter, db_type, deployments, deployment_versions, q, sse, api,
                   submits, calls, exits>>

\* tasks.py:51  dep = db_manager.get_deployment(dep_id)
task_update_read ==
    /\ worker.pc = "update_read"
    /\ worker' = [worker EXCEPT !.dep = get_deployment(deployments, worker.dep_id),
                                !.pc = IF get_deployment(deployments, worker.dep_id) = NoRec
                                       THEN "emit_success" ELSE "update_save"]
    /\ UNCHANGED <<tunnels, project, recipe, limiter, db_type, deployments, deployment_versions, q, logs, containers,
                   sse, api, submits, faults, calls, exits>>

\* tasks.py:53-57  the fields the executor sets on its copy of the record
ActiveRecord(dep, container_id, port) ==
    [dep EXCEPT !.status = "active", !.containerId = container_id, !.port = port,
                !.directUrl = PublicUrl(port), !.url = PublicUrl(port)]

\* tasks.py:58  db_manager.save_deployment(dep)
task_update_save ==
    /\ worker.pc = "update_save"
    /\ deployments' = save_deployment(deployments,
                          ActiveRecord(worker.dep, worker.container_id, worker.port))
    /\ worker' = [worker EXCEPT !.pc = "emit_success"]
    /\ UNCHANGED <<tunnels, project, recipe, limiter, db_type, deployment_versions, q, logs, containers, sse, api,
                   submits, faults, calls, exits>>

\* tasks.py:60  the success event
task_emit_success(pushed) ==
    /\ worker.pc = "emit_success"
    /\ Redis(pushed)
    /\ logs' = IF pushed
               THEN emit_log_redis(logs, worker.dep_id, "successful", "success")
               ELSE logs
    /\ worker' = IF pushed THEN [worker EXCEPT !.pc = "emit_done"]
                 ELSE [worker EXCEPT !.pc = "except", !.error = "log_raised"]
    /\ UNCHANGED <<tunnels, project, recipe, limiter, db_type, deployments, deployment_versions, q, containers, sse, api,
                   submits, calls, exits>>

\* tasks.py:74  the done signal; the task returns after it
task_emit_done(pushed) ==
    /\ worker.pc = "emit_done"
    /\ Redis(pushed)
    /\ logs' = IF pushed
               THEN [logs EXCEPT ![worker.dep_id] =
                        Append(@, success_payload(worker.container_id, worker.port))]
               ELSE logs
    /\ worker' = IF pushed THEN [worker EXCEPT !.pc = "idle", !.result = "returned"]
                 ELSE [worker EXCEPT !.pc = "except", !.error = "log_raised"]
    /\ UNCHANGED <<tunnels, project, recipe, limiter, db_type, deployments, deployment_versions, q, containers, sse, api,
                   submits, calls, exits>>

\* tasks.py:79  the error event of the except block; when it raises the
\* exception leaves run_deployment_task
task_except_emit(pushed) ==
    /\ worker.pc = "except"
    /\ Redis(pushed)
    /\ logs' = IF pushed
               THEN emit_log_redis(logs, worker.dep_id, "failed", "error")
               ELSE logs
    /\ worker' = IF pushed THEN [worker EXCEPT !.pc = "except_done"]
                 ELSE [worker EXCEPT !.pc = "idle", !.result = "raised"]
    /\ UNCHANGED <<tunnels, project, recipe, limiter, db_type, deployments, deployment_versions, q, containers, sse, api,
                   submits, calls, exits>>

\* tasks.py:86  the done signal of the except block
task_except_done(pushed) ==
    /\ worker.pc = "except_done"
    /\ Redis(pushed)
    /\ logs' = IF pushed
               THEN [logs EXCEPT ![worker.dep_id] = Append(@, failure_payload)]
               ELSE logs
    /\ worker' = IF pushed THEN [worker EXCEPT !.pc = "except_read"]
                 ELSE [worker EXCEPT !.pc = "idle", !.result = "raised"]
    /\ UNCHANGED <<tunnels, project, recipe, limiter, db_type, deployments, deployment_versions, q, containers, sse, api,
                   submits, calls, exits>>

\* tasks.py:90  dep = db_manager.get_deployment(dep_id); without a record
\* the task returns
task_except_read ==
    /\ worker.pc = "except_read"
    /\ worker' = IF get_deployment(deployments, worker.dep_id) = NoRec
                 THEN [worker EXCEPT !.pc = "idle", !.result = "failed"]
                 ELSE [worker EXCEPT !.pc = "except_save",
                                     !.dep = get_deployment(deployments, worker.dep_id)]
    /\ UNCHANGED <<tunnels, project, recipe, limiter, db_type, deployments, deployment_versions, q, logs, containers,
                   sse, api, submits, faults, calls, exits>>

\* tasks.py:92-93  status failed; the task returns
task_except_save ==
    /\ worker.pc = "except_save"
    /\ deployments' = save_deployment(deployments, [worker.dep EXCEPT !.status = "failed"])
    /\ worker' = [worker EXCEPT !.pc = "idle", !.result = "failed"]
    /\ UNCHANGED <<tunnels, project, recipe, limiter, db_type, deployment_versions, q, logs, containers, sse, api,
                   submits, faults, calls, exits>>

run_deployment_task ==
    \/ \E pushed \in BOOLEAN : task_pickup(pushed)
    \/ \E outcome \in {"built", "build_failed", "log_raised"} : deploy_build(outcome)
    \/ \E outcome \in {"running", "exited", "no_port", "conflict", "log_raised"},
          port \in Ports : deploy_run(outcome, port)
    \/ task_update_read
    \/ task_update_save
    \/ \E pushed \in BOOLEAN : task_emit_success(pushed)
    \/ \E pushed \in BOOLEAN : task_emit_done(pushed)
    \/ \E pushed \in BOOLEAN : task_except_emit(pushed)
    \/ \E pushed \in BOOLEAN : task_except_done(pushed)
    \/ task_except_read
    \/ task_except_save

Next == Submit \/ BadSubmit \/ run_deployment_task \/ ControlApi \/ Engine

\* The Log Bus and its consumers: submits whose stream is followed, the
\* executor as the producer, and the tail loops.
SubmitFollowed ==
    \E d \in DrawnIds :
        \/ \E enqueued \in BOOLEAN, tail \in BOOLEAN :
               deploy_stream(d, StreamType, enqueued, tail)
        \/ \E enqueued \in BOOLEAN : deploy_local(d, LocalType, enqueued)

NextStream == SubmitFollowed \/ run_deployment_task \/ Sse

SpecStream == Init /\ [][NextStream]_vars

\* app.save_deployment_version called again and again for one deployment,
\* whose record names no container or one of the engine's containers.
save_deployment_version(deployment) ==
    /\ Len(deployment_versions) < MaxVersionCalls
    /\ deployment_versions' = VersionsAfterSave(deployment_versions, deployment)
    /\ containers' = ContainersAfterVersionSave(deployment_versions, containers,
                                                 deployment)
    /\ UNCHANGED <<tunnels, project, recipe, limiter, db_type, deployments, q, logs, worker, sse, api,
                   submits, faults, calls, exits>>

InitVersions ==
    /\ db_type \in DbTypes
    /\ deployments = [d \in DepIds |->
           IF d = 1 THEN ActiveRecord(deployment_record(1, LocalType,
                                          LocalInitialStatus, "local"), 1, 1)
           ELSE NoRec]
    /\ deployment_versions = <<>>
    /\ q = <<>>
    /\ logs = [d \in DepIds |-> <<>>]
    /\ containers = <<NewContainer("running", "deploy_static_site", 1, 1)>>
    /\ worker = IdleWorker
    /\ sse = NoStream
    /\ api = IdleApi
    /\ submits = 1
    /\ faults = 0
    /\ calls = 0
    /\ exits = 0
    /\ tunnels = NoTunnels
    /\ limiter = FreshLimiter("api")
    /\ recipe = NoRecipe
    /\ project = NoProject

NextVersions ==
    \E container_id \in {None} \cup DOMAIN containers :
        save_deployment_version([deployments[1] EXCEPT !.containerId = container_id])

SpecVersions == InitVersions /\ [][NextVersions]_vars

\* Requests to an endpoint behind rate_limit, again and again on one key
\* of any of the three categories, while the clock advances.
InitRate ==
    /\ db_type = "sqlite"
    /\ deployments = [d \in DepIds |-> NoRec]
    /\ deployment_versions = <<>>
    /\ q = <<>>
    /\ logs = [d \in DepIds |-> <<>>]
    /\ containers = <<>>
    /\ worker = IdleWorker
    /\ sse = NoStream
    /\ api = IdleApi
    /\ submits = 0
    /\ faults = 0
    /\ calls = 0
    /\ exits = 0
    /\ tunnels = NoTunnels
    /\ \E limit_type \in LimitTypes : limiter = FreshLimiter(limit_type)
    /\ recipe = NoRecipe
    /\ project = NoProject

\* Request threads of the Control API (app.run(threaded=True)) calling
\* is_allowed on one key at the same time, while the clock advances.
NextThreads ==
    \/ \E t \in 1..NumThreads :
           \/ is_allowed_call(t)
           \/ lock_acquire(t)
           \/ clean_and_check(t)
           \/ record_and_return(t)
    \/ \E dt \in {1, window(limiter.limit_type) - 1, window(limiter.limit_type)} :
           clock_advances(dt)

\* The keys followed are those of the two hourly categories.
InitThreads ==
    /\ db_type = "sqlite"
    /\ deployments = [d \in DepIds |-> NoRec]
    /\ deployment_versions = <<>>
    /\ q = <<>>
    /\ logs = [d \in DepIds |-> <<>>]
    /\ containers = <<>>
    /\ worker = IdleWorker
    /\ sse = NoStream
    /\ api = IdleApi
    /\ submits = 0
    /\ faults = 0
    /\ calls = 0
    /\ exits = 0
    /\ tunnels = NoTunnels
    /\ \E limit_type \in {"deploy", "upload"} : limiter = FreshLimiter(limit_type)
    /\ recipe = NoRecipe
    /\ project = NoProject

SpecThreads == InitThreads /\ [][NextThreads]_vars

NextRate ==
    \/ \E is_tuple \in BOOLEAN, status_code \in {OK, BAD_REQUEST} :
           decorated_function(is_tuple, status_code)
    \/ \E dt \in {1, window(limiter.limit_type) - 1, window(limiter.limit_type)} :
           clock_advances(dt)

SpecRate == InitRate /\ [][NextRate]_vars

\* One submit, of any deployment kind and with any setting of the options,
\* from the request to the containers.run call of its job.
InitRun ==
    /\ db_type = "sqlite"
    /\ deployments = [d \in DepIds |-> NoRec]
    /\ deployment_versions = <<>>
    /\ q = <<>>
    /\ logs = [d \in DepIds |-> <<>>]
    /\ containers = <<>>
    /\ worker = IdleWorker
    /\ sse = NoStream
    /\ api = IdleApi
    /\ submits = 0
    /\ faults = 0
    /\ calls = 0
    /\ exits = 0
    /\ tunnels = NoTunnels
    /\ limiter = FreshLimiter("api")
    /\ \E data \in [deploymentType : {"static", "service"},
                     runtime : {"python", "nodejs", "java"}, useDevMode : BOOLEAN,
                     persistentStorage : BOOLEAN, autoRestart : BOOLEAN],
          environ \in [CONTAINER_MEMORY_LIMIT : {"unset", "1g"},
                       CONTAINER_CPU_LIMIT : {None, 10}] :
          recipe = [NoRecipe EXCEPT !.pc = "request", !.data = data,
                                    !.environ = environ]
    /\ project = NoProject

NextRun ==
    \/ \E d \in DepIds : submit_config(d)
    \/ deploy_static_site
    \/ deploy_web_service
    \/ deploy_nodejs_dev
    \/ deploy_java_service

SpecRun == InitRun /\ [][NextRun]_vars

\* The three recipes that build on a Node.js image, for every engines.node
\* of up to MaxReqLen tokens.
NodeReqs == UNION {[1..n -> Comparators \cup Majors] : n \in 0..MaxReqLen}

InitNode ==
    /\ db_type = "sqlite"
    /\ deployments = [d \in DepIds |-> NoRec]
    /\ deployment_versions = <<>>
    /\ q = <<>>
    /\ logs = [d \in DepIds |-> <<>>]
    /\ containers = <<>>
    /\ worker = IdleWorker
    /\ sse = NoStream
    /\ api = IdleApi
    /\ submits = 0
    /\ faults = 0
    /\ calls = 0
    /\ exits = 0
    /\ tunnels = NoTunnels
    /\ limiter = FreshLimiter("api")
    /\ recipe = NoRecipe
    /\ \E node_req \in NodeReqs :
          project = [pc |-> "source", node_req |-> node_req, recipe |-> "none",
                     node_version |-> None]

NextNode ==
    \E recipe_name \in {"deploy_static_site", "_create_nodejs_dockerfile",
                        "_deploy_nodejs_dev"} : node_dockerfile(recipe_name)

SpecNode == InitNode /\ [][NextNode]_vars

\* The detector on every directory: any set of marker files, any names in
\* requirements.txt, any package.json.
Directories ==
    {dir \in [files : SUBSET MarkerFiles,
              requirements : SUBSET {"django", "flask", "gunicorn"},
              package : {NoPackage, [NoPackage EXCEPT !.state = "unparsable"]}
                           \cup [state : {"parsed"},
                                 dependencies : SUBSET {"vite", "react", "express"},
                                 build : BOOLEAN, start : BOOLEAN]] :
        /\ "requirements.txt" \notin dir.files => dir.requirements = {}
        /\ "package.json" \in dir.files <=> dir.package # NoPackage}

InitDetect ==
    /\ db_type = "sqlite"
    /\ deployments = [d \in DepIds |-> NoRec]
    /\ deployment_versions = <<>>
    /\ q = <<>>
    /\ logs = [d \in DepIds |-> <<>>]
    /\ containers = <<>>
    /\ worker = IdleWorker
    /\ sse = NoStream
    /\ api = IdleApi
    /\ submits = 0
    /\ faults = 0
    /\ calls = 0
    /\ exits = 0
    /\ tunnels = NoTunnels
    /\ limiter = FreshLimiter("api")
    /\ recipe = NoRecipe
    /\ \E dir \in Directories :
          project = [pc |-> "scanned", dir |-> dir, method |-> "none", out |-> NoMatch]

NextDetect ==
    \E method \in {"_detect_project_type", "detect_all", "get_smart_suggestions"} :
        detector_call(method)

SpecDetect == InitDetect /\ [][NextDetect]_vars

\* The Python recipe on every Python project.
PythonDirectories ==
    {dir \in [has_requirements : BOOLEAN,
              requirements : SUBSET {"django", "gunicorn", "fastapi"},
              has_pipfile : BOOLEAN, pipfile : SUBSET {"django"},
              has_manage_py : BOOLEAN, settings : BOOLEAN,
              procfile : {"absent", "other", "web"}, start_command : BOOLEAN] :
        /\ ~dir.has_requirements => dir.requirements = {}
        /\ ~dir.has_pipfile => dir.pipfile = {}}

InitPython ==
    /\ db_type = "sqlite"
    /\ deployments = [d \in DepIds |-> NoRec]
    /\ deployment_versions = <<>>
    /\ q = <<>>
    /\ logs = [d \in DepIds |-> <<>>]
    /\ containers = <<>>
    /\ worker = IdleWorker
    /\ sse = NoStream
    /\ api = IdleApi
    /\ submits = 0
    /\ faults = 0
    /\ calls = 0
    /\ exits = 0
    /\ tunnels = NoTunnels
    /\ limiter = FreshLimiter("api")
    /\ recipe = NoRecipe
    /\ \E dir \in PythonDirectories :
          project = [pc |-> "source", dir |-> dir,
                     cmd |-> [command |-> "none", shell |-> FALSE]]

NextPython == create_python_dockerfile

SpecPython == InitPython /\ [][NextPython]_vars

\* The executor on one submitted deployment of any kind (static, Python or
\* Node.js service, Node.js dev mode, Java), its job delivered once or, the
\* queue delivering at least once, a second time.
InitDelivery ==
    /\ db_type \in DbTypes
    /\ \E deployment_type \in {LocalType, StreamType},
          config \in [runtime : {"python", "nodejs", "java"}, useDevMode : BOOLEAN],
          deliveries \in 1..2 :
          LET record == deployment_record(1, deployment_type,
                            IF deployment_type = LocalType THEN LocalInitialStatus
                            ELSE StreamInitialStatus,
                            IF deployment_type = LocalType THEN "local" ELSE "github")
          IN /\ deployments = [d \in DepIds |-> IF d = 1 THEN record ELSE NoRec]
             /\ deployment_versions = VersionsAfterSave(<<>>, record)
             /\ q = [i \in 1..deliveries |->
                       [Job(1, deployment_type) EXCEPT !.config = config]]
    /\ logs = [d \in DepIds |-> <<>>]
    /\ containers = <<>>
    /\ worker = IdleWorker
    /\ sse = NoStream
    /\ api = IdleApi
    /\ submits = 1
    /\ faults = 0
    /\ calls = 0
    /\ exits = 0
    /\ tunnels = NoTunnels
    /\ limiter = FreshLimiter("api")
    /\ recipe = NoRecipe
    /\ project = NoProject

SpecDelivery == InitDelivery /\ [][run_deployment_task]_vars

\* The store on its own: a row written by a submit, then one save of any
\* record of that id and a read of it, in either dialect.
call_save_deployment ==
    /\ project.pc = "row"
    /\ deployments' = save_deployment(deployments, project.dep)
    /\ project' = [project EXCEPT !.pc = "saved"]
    /\ UNCHANGED <<tunnels, db_type, deployment_versions, q, logs, containers, worker, sse, api,
                   submits, faults, calls, exits, limiter, recipe>>

call_get_deployment ==
    /\ project.pc = "saved"
    /\ project' = [project EXCEPT !.pc = "read",
                                  !.out = get_deployment(deployments, project.dep.id)]
    /\ UNCHANGED <<tunnels, recipe, limiter, platform>>

\* The records a handler or the executor may save for deployment 1: every
\* column that one of them assigns takes its value at submit or a later one.
StoreRecords ==
    [id : {1}, deploymentType : {LocalType}, source : {"local"},
     status : {LocalInitialStatus, "active"},
     url : {<<"proxy", 1>>, PublicUrl(1)},
     directUrl : {NoUrl, PublicUrl(1)},
     timestamp : {"submitted", "rolled back"},
     containerId : {None, 1},
     port : {None, 1},
     config : {[environmentVariables |-> <<>>],
               [environmentVariables |-> <<"KEY=VALUE">>]},
     environmentVariables : {<<>>, <<"KEY=VALUE">>},
     version : {1, 2},
     customDomain : {<<"none", None>>, <<"domain", 1>>},
     volumePath : {NoVolume, VolumeName(1)}]

InitStore ==
    /\ db_type \in DbTypes
    /\ deployments =
          [d \in DepIds |->
              IF d = 1 THEN deployment_record(1, LocalType, LocalInitialStatus, "local")
              ELSE NoRec]
    /\ \E dep \in StoreRecords : project = [pc |-> "row", dep |-> dep, out |-> NoRec]
    /\ deployment_versions = <<>>
    /\ q = <<>>
    /\ logs = [d \in DepIds |-> <<>>]
    /\ containers = <<>>
    /\ worker = IdleWorker
    /\ sse = NoStream
    /\ api = IdleApi
    /\ submits = 1
    /\ faults = 0
    /\ calls = 0
    /\ exits = 0
    /\ tunnels = NoTunnels
    /\ limiter = FreshLimiter("api")
    /\ recipe = NoRecipe

NextStore == call_save_deployment \/ call_get_deployment

SpecStore == InitStore /\ [][NextStore]_vars

\* One tail loop followed to its end, every empty read of it included: it
\* is attached to the list of a deployment whose job has started its
\* container and saved the record, and is about to emit its last records
\* or to stop for good.
InitTail ==
    LET record == deployment_record(1, StreamType, StreamInitialStatus, "github")
        started == <<Event("info", "picked up"), Event("log", "building"),
                     Event("log", "deployed")>>
    IN /\ db_type = "sqlite"
       /\ deployments = [d \in DepIds |-> IF d = 1 THEN ActiveRecord(record, 1, 1)
                                         ELSE NoRec]
       /\ deployment_versions = VersionsAfterSave(<<>>, record)
       /\ q = <<>>
       /\ logs = [d \in DepIds |-> IF d = 1 THEN started ELSE <<>>]
       /\ containers = <<NewContainer("running", "deploy_web_service", 1, 1)>>
       /\ worker = [IdleWorker EXCEPT !.pc = "emit_success", !.dep_id = 1,
                                      !.deployment_type = StreamType,
                                      !.container_id = 1, !.port = 1,
                                      !.dep = record]
       /\ sse = [NoStream EXCEPT !.pc = "poll", !.id = 1,
                                 !.attached_at = Len(started)]
       /\ api = IdleApi
       /\ submits = 1
       /\ faults = 0
       /\ calls = 0
       /\ exits = 0
       /\ tunnels = NoTunnels
       /\ limiter = FreshLimiter("api")
       /\ recipe = NoRecipe
       /\ project = NoProject

NextTail ==
    \/ sse_poll(EMPTY_READS_LIMIT + 1)
    \/ sse_forward
    \/ \E pushed \in BOOLEAN : task_emit_success(pushed)
    \/ \E pushed \in BOOLEAN : task_emit_done(pushed)
    \/ \E pushed \in BOOLEAN : task_except_emit(pushed)
    \/ \E pushed \in BOOLEAN : task_except_done(pushed)
    \/ task_except_read
    \/ task_except_save

\* The generator of the response polls again after every sleep and yields
\* every record of a batch for as long as the client reads; the job may
\* stop at any point.
SpecTail ==
    /\ InitTail
    /\ [][NextTail]_vars
    /\ WF_vars(sse_poll(EMPTY_READS_LIMIT + 1))
    /\ WF_vars(sse_forward)

\* ---------------------------------------- CloudflareTunnelManager methods
\* threading.Lock is not re-entrant: `with self.tunnel_lock` waits for as
\* long as any thread holds the lock, the waiting thread itself included.
Acquirable(tm) == tm.tunnel_lock = 0

\* deployment_id in self.active_tunnels
Tracked(tm, deployment_id) ==
    \E i \in 1..Len(tm.active_tunnels) : tm.active_tunnels[i] = deployment_id

\* del self.active_tunnels[deployment_id]
Untracked(keys, deployment_id) ==
    SelectSeq(keys, LAMBDA k : k # deployment_id)

\* create_tunnel: cloudflared is started and has printed its URL, and the
\* entry is stored under the lock.  One tunnel is created per deployment.
create_tunnel(t, deployment_id) ==
    /\ tunnels.threads[t].pc = "idle"
    /\ Acquirable(tunnels)
    /\ tunnels.process[deployment_id] = "none"
    /\ tunnels' = [tunnels EXCEPT
                      !.active_tunnels = Append(@, deployment_id),
                      !.process[deployment_id] = "running",
                      !.threads[t].ret = "url"]
    /\ UNCHANGED <<project, recipe, limiter, platform>>

\* A thread calls stop_tunnel(deployment_id) from outside the manager.
stop_tunnel_call(t, deployment_id) ==
    /\ tunnels.threads[t].pc = "idle"
    /\ tunnels' = [tunnels EXCEPT
                      !.threads[t] = [IdleCaller EXCEPT !.pc = "stop_tunnel",
                                                        !.caller = "thread",
                                                        !.deployment_id = deployment_id]]
    /\ UNCHANGED <<project, recipe, limiter, platform>>

\* stop_tunnel: with self.tunnel_lock
stop_tunnel_acquire(t) ==
    /\ tunnels.threads[t].pc = "stop_tunnel"
    /\ Acquirable(tunnels)
    /\ tunnels' = [tunnels EXCEPT !.tunnel_lock = t, !.threads[t].pc = "stopping"]
    /\ UNCHANGED <<project, recipe, limiter, platform>>

\* stop_tunnel, inside the with block: terminate and wait (or kill), delete
\* the entry and return True, or return False for an id that has no
\* entry; the lock is released as the block is left.
stop_tunnel_body(t) ==
    LET th == tunnels.threads[t]
        found == Tracked(tunnels, th.deployment_id)
        back == IF th.caller = "cleanup_all" THEN "cleanup_loop" ELSE "idle"
    IN /\ th.pc = "stopping"
       /\ tunnels' =
             [tunnels EXCEPT
                 !.process[th.deployment_id] = IF found THEN "terminated" ELSE @,
                 !.active_tunnels = Untracked(@, th.deployment_id),
                 !.tunnel_lock = 0,
                 !.threads[t].pc = back,
                 !.threads[t].ret = IF found THEN "True" ELSE "False"]
       /\ UNCHANGED <<project, recipe, limiter, platform>>

\* A thread calls cleanup_all().
cleanup_all_call(t) ==
    /\ tunnels.threads[t].pc = "idle"
    /\ tunnels' = [tunnels EXCEPT
                      !.threads[t] = [IdleCaller EXCEPT !.pc = "cleanup_all",
                                                        !.caller = "cleanup_all"]]
    /\ UNCHANGED <<project, recipe, limiter, platform>>

\* cleanup_all: with self.tunnel_lock, and list(self.active_tunnels.keys())
cleanup_all_acquire(t) ==
    /\ tunnels.threads[t].pc = "cleanup_all"
    /\ Acquirable(tunnels)
    /\ tunnels' = [tunnels EXCEPT !.tunnel_lock = t,
                                  !.threads[t].pc = "cleanup_loop",
                                  !.threads[t].pending = tunnels.active_tunnels]
    /\ UNCHANGED <<project, recipe, limiter, platform>>

\* cleanup_all: one turn of the for loop, which calls stop_tunnel for the
\* next key while the with block of cleanup_all is still open, or the end
\* of the loop, where the block is left and the method returns.
cleanup_all_next(t) ==
    LET th == tunnels.threads[t]
    IN /\ th.pc = "cleanup_loop"
       /\ tunnels' =
             IF th.pending = <<>>
             THEN [tunnels EXCEPT !.tunnel_lock = 0,
                                  !.threads[t] = [IdleCaller EXCEPT !.ret = "cleaned"]]
             ELSE [tunnels EXCEPT !.threads[t].pc = "stop_tunnel",
                                  !.threads[t].deployment_id = Head(th.pending),
                                  !.threads[t].pending = Tail(th.pending)]
       /\ UNCHANGED <<project, recipe, limiter, platform>>

InitTunnels ==
    /\ db_type \in DbTypes
    /\ deployments = [d \in DepIds |-> NoRec]
    /\ deployment_versions = <<>>
    /\ q = <<>>
    /\ logs = [d \in DepIds |-> <<>>]
    /\ containers = <<>>
    /\ worker = IdleWorker
    /\ sse = NoStream
    /\ api = IdleApi
    /\ submits = 0
    /\ faults = 0
    /\ calls = 0
    /\ exits = 0
    /\ limiter = FreshLimiter("api")
    /\ recipe = NoRecipe
    /\ project = NoProject
    /\ tunnels = NoTunnels

NextTunnels ==
    \E t \in 1..NumThreads :
        \/ \E deployment_id \in DepIds : create_tunnel(t, deployment_id)
        \/ \E deployment_id \in DepIds : stop_tunnel_call(t, deployment_id)
        \/ stop_tunnel_acquire(t)
        \/ stop_tunnel_body(t)
        \/ cleanup_all_call(t)
        \/ cleanup_all_acquire(t)
        \/ cleanup_all_next(t)

\* A thread inside a method of the manager keeps running, and a thread
\* that waits for the lock gets it if the lock keeps being released.
SpecTunnels ==
    /\ InitTunnels
    /\ [][NextTunnels]_vars
    /\ \A t \in 1..NumThreads :
          /\ WF_vars(stop_tunnel_body(t))
          /\ WF_vars(cleanup_all_next(t))
          /\ SF_vars(stop_tunnel_acquire(t))
          /\ SF_vars(cleanup_all_acquire(t))

Spec == Init /\ [][Next]_vars

\* ----------------------------------------------------------- properties
Last(s) == s[Len(s)]

Record(d) == deployments[d]

Running(cid) == get_container_status(containers, cid) = "running"

\* C1: the record of a deployment whose job waits in the queue, not yet
\* picked up by a worker, has status queued, whichever submit endpoint
\* wrote it.
C1_QueuedUntilPickup ==
    \A i \in 1..Len(q) :
        Record(q[i].dep_id) # NoRec => Record(q[i].dep_id).status = "queued"

\* C2: while the executor builds and runs a deployment, the record of that
\* deployment has status building.
C2_BuildingWhileExecuting ==
    (worker.pc \in {"build", "run"} /\ Record(worker.dep_id) # NoRec)
        => Record(worker.dep_id).status = "building"

\* C3: the executor's save on the success path leaves the record active
\* with the container id, the host port and the direct URL of the container
\* the engine started, and the done event that ends the task carries those
\* same values with success = true.
C3_SuccessRecorded ==
    [][ /\ (worker.pc = "update_save" /\ worker'.pc = "emit_success")
            => /\ Record(worker.dep_id)'.status = "active"
               /\ Record(worker.dep_id)'.containerId = worker.container_id
               /\ Record(worker.dep_id)'.port = worker.port
               /\ Record(worker.dep_id)'.directUrl = PublicUrl(worker.port)
        /\ (worker.pc = "emit_done" /\ worker'.pc = "idle")
            => /\ Last(logs'[worker.dep_id]).type = "done"
               /\ Last(logs'[worker.dep_id]).success
               /\ Last(logs'[worker.dep_id]).containerId = worker.container_id
               /\ Last(logs'[worker.dep_id]).port = worker.port
               /\ Last(logs'[worker.dep_id]).directUrl = PublicUrl(worker.port)
      ]_vars

\* C4: when the executor's except block ends the task, no exception has
\* left run_deployment_task, the list of the deployment ends with an error
\* event followed by the done event with success = false, and the record,
\* if there is one, is failed.
C4_FailureContained ==
    [][ (worker.pc \in {"except", "except_done", "except_read", "except_save"}
            /\ worker'.pc = "idle")
        => LET l == logs'[worker.dep_id]
               n == Len(l)
           IN /\ worker'.result = "failed"
              /\ n >= 2
              /\ l[n - 1].type = "error"
              /\ l[n].type = "done"
              /\ ~l[n].success
              /\ Record(worker.dep_id)' # NoRec
                    => Record(worker.dep_id)'.status = "failed"
      ]_vars

\* C5: as long as no container has exited on its own, a record is active
\* exactly when its containerId names a running container and its port is
\* set.
C5_ActiveIffRunning ==
    exits = 0 =>
        \A d \in DepIds :
            Record(d) # NoRec =>
                (Record(d).status = "active"
                    <=> (/\ Record(d).containerId # None
                         /\ Running(Record(d).containerId)
                         /\ Record(d).port # None))

\* C6: a list of the Log Bus that holds a done event is never appended to
\* again.
C6_DoneIsLast ==
    [][\A d \in DepIds : HasDone(logs[d]) => logs'[d] = logs[d]]_vars

C9_AtMostTenVersions ==
    \A d \in DepIds : Len(RowsOf(deployment_versions, d)) <= VERSION_LIMIT

\* C10: every version row carries the id of a container the engine started,
\* so that a deployment for which no container was started has no row.
C10_VersionPerRollout ==
    \A i \in 1..Len(deployment_versions) :
        /\ deployment_versions[i].containerId # None
        /\ deployment_versions[i].containerId \in DOMAIN containers

\* C11: the version row a rollback request in progress targets is, without
\* a version in the body, the row with the highest version number of the
\* deployment, and with a version exactly the row of that number, or none
\* (404) when the deployment has no such row.
C11_TargetsMostRecent ==
    (api.pc = "busy" /\ api.op = "rollback_deployment") =>
        LET history == get_deployment_versions(deployment_versions, api.id)
            target == RollbackTarget(history, api.version)
        IN history # <<>> =>
              IF api.version = None
              THEN \A i \in 1..Len(history) : target.version >= history[i].version
              ELSE IF \E i \in 1..Len(history) : history[i].version = api.version
              THEN target.deployment_id = api.id /\ target.version = api.version
              ELSE target = NoRow

\* C12: a rollback to version 1 of an active deployment that has the version
\* rows 1 and 2 leaves the record at version 1 with a running container and
\* the version rows as they were.
C12_RollbackRoundTrip ==
    [][ (/\ api.pc = "busy" /\ api.op = "rollback_deployment"
         /\ api'.pc # "busy"
         /\ api.version = 1
         /\ api.dep.status = "active"
         /\ Len(get_deployment_versions(deployment_versions, api.id)) = 2)
        => /\ deployments'[api.id].version = 1
           /\ get_container_status(containers',
                  deployments'[api.id].containerId) = "running"
           /\ deployment_versions' = deployment_versions
      ]_vars

\* C13: the port stored in a record is the host port the engine maps for
\* the container the record names.
C13_PortIsEnginePort ==
    \A d \in DepIds :
        (Record(d) # NoRec /\ Record(d).port # None)
            => /\ Exists(containers, Record(d).containerId)
               /\ containers[Record(d).containerId].port = Record(d).port

\* C14: a deployment whose record has been deleted has no container in
\* the engine labelled with its id.
C14_NoContainerAfterDelete ==
    \A d \in DepIds :
        Record(d) = NoRec =>
            \A c \in DOMAIN containers :
                ~(Exists(containers, c) /\ containers[c].deployment_id = d)

\* C15: a deployment whose record has been deleted has no row left in
\* deployment_versions, in either store dialect.
C15_DeleteCascades ==
    \A d \in DepIds :
        Record(d) = NoRec => RowsOf(deployment_versions, d) = <<>>

\* C16: the executor's final save, on the success path or in the except
\* block, does not create a record for a deployment that has none.
C16_NoResurrection ==
    [][ (/\ worker.pc \in {"update_save", "except_save"}
         /\ worker'.pc # worker.pc
         /\ Record(worker.dep_id) = NoRec)
        => deployments'[worker.dep_id] = NoRec
      ]_vars

C18_StatusInSet ==
    \A d \in DepIds :
        Record(d) # NoRec =>
            Record(d).status \in {"queued", "building", "active", "stopped", "failed"}

\* C19: no management handler's write takes a record the executor has set
\* to active or failed back to queued or building, or replaces the
\* container id and port of an active record.
C19_ExecutorWriteStands ==
    [][ (api.pc = "busy" /\ api'.pc # "busy")
        => \A d \in DepIds :
              (/\ deployments[d] # NoRec
               /\ deployments[d].status \in {"active", "failed"}
               /\ deployments'[d] # NoRec)
              => /\ deployments'[d].status \notin {"queued", "building"}
                 /\ deployments[d].status = "active"
                       => /\ deployments'[d].containerId = deployments[d].containerId
                          /\ deployments'[d].port = deployments[d].port
      ]_vars

\* The admitted calls of the key with a timestamp in (t - window, t].
AdmittedIn(t) ==
    {i \in 1..Len(limiter.admitted) :
        /\ t - window(limiter.limit_type) < limiter.admitted[i]
        /\ limiter.admitted[i] <= t}

\* The times at which the number of admitted calls in the window can
\* change, up to now: every admitted timestamp, the last instant its
\* window covers and the first it does not, and now.
WindowEnds ==
    {limiter.now}
        \cup {t \in UNION {{limiter.admitted[i],
                            limiter.admitted[i] + window(limiter.limit_type) - 1,
                            limiter.admitted[i] + window(limiter.limit_type)} :
                           i \in 1..Len(limiter.admitted)} : t <= limiter.now}

\* C20: for the key followed, at most max_requests admitted calls have a
\* timestamp in any window (t - window, t]; the first call on the fresh key
\* is admitted with remaining = max_requests - 1; a call that finds
\* max_requests recorded timestamps inside the window is rejected with
\* remaining 0 and is not recorded: the list holds exactly the admitted
\* timestamps that are still inside the window.
C20_RateLimit ==
    LET max == max_requests(limiter.limit_type)
    IN /\ \A t \in WindowEnds : Cardinality(AdmittedIn(t)) <= max
       /\ Len(limiter.requests) <= max
       /\ (limiter.calls = 1 /\ limiter.allowed # "none")
             => (limiter.allowed = "yes" /\ limiter.remaining = max - 1)
       /\ limiter.allowed = "yes" => limiter.remaining = max - Len(limiter.requests)
       /\ limiter.allowed = "no" =>
             /\ limiter.remaining = 0
             /\ Len(limiter.requests) = max
             /\ Cardinality(AdmittedIn(limiter.now)) = max
       /\ limiter.allowed # "none" =>
             limiter.requests =
                 SubSeq(limiter.admitted,
                        Len(limiter.admitted) - Cardinality(AdmittedIn(limiter.now)) + 1,
                        Len(limiter.admitted))

\* A call is rejected while the oldest of the max_requests recorded calls
\* is in its last instant inside the window, after earlier calls of the
\* key have left the window.
C20_Witness ==
    /\ limiter.allowed = "no"
    /\ Len(limiter.admitted) > Len(limiter.requests)
    /\ limiter.now - limiter.requests[1] = window(limiter.limit_type) - 1

\* C21: the response to a request that is_allowed rejected has status 429,
\* carries the headers X-RateLimit-Remaining and X-RateLimit-Limit, and the
\* wrapped handler was not called for it.
C21_OverLimitResponse ==
    limiter.allowed = "no" =>
        /\ limiter.status = TOO_MANY_REQUESTS
        /\ \E v \in 0..API_MAX_REQUESTS : <<"X-RateLimit-Remaining", v>> \in limiter.headers
        /\ \E v \in 0..API_MAX_REQUESTS : <<"X-RateLimit-Limit", v>> \in limiter.headers
        /\ ~limiter.invoked
\* C22: every container started, of every deployment kind, is run with a
\* memory limit and a CPU quota, which are 512m and half a CPU period when
\* CONTAINER_MEMORY_LIMIT and CONTAINER_CPU_LIMIT are unset.
C22_ResourceLimits ==
    recipe.pc = "ran" =>
        /\ recipe.run.mem_limit # NoLimit
        /\ recipe.run.cpu_quota # None
        /\ recipe.environ.CONTAINER_MEMORY_LIMIT = "unset"
              => recipe.run.mem_limit = "512m"
        /\ recipe.environ.CONTAINER_CPU_LIMIT = None
              => recipe.run.cpu_quota = CPU_PERIOD \div 2

\* C23: a deployment submitted with autoRestart = false is run with a
\* restart policy that does not restart the container automatically, and
\* one with autoRestart = true with an automatic-restart policy.
C23_RestartPolicyFollowsOption ==
    recipe.pc = "ran" =>
        (recipe.data.autoRestart
            <=> recipe.run.restart_policy \in {"always", "unless-stopped", "on-failure"})

\* C24: the container of a deployment submitted with persistentStorage =
\* true, of whatever kind, is run with the volume persistent_data_{id}
\* mounted at /app/data, and that volume is the record's volumePath.
C24_PersistentVolumeMounted ==
    (recipe.pc = "ran" /\ recipe.data.persistentStorage) =>
        /\ <<VolumeName(recipe.dep_id), "/app/data">> \in recipe.run.volumes
        /\ recipe.volumePath = VolumeName(recipe.dep_id)
\* C25: on each of the three recipe paths that build on a Node.js image,
\* the major version chosen for a package.json whose engines.node has the
\* first integer n is 22 for n >= 22, 20 for 20 <= n < 22, 18 for
\* 18 <= n < 20, 16 for 16 <= n < 18 and 18 for n < 16.
C25_NodeVersionSnaps ==
    LET n == required_version(project.node_req)
    IN (project.pc = "dockerfile" /\ n # None) =>
          project.node_version =
              IF n >= 22 THEN 22
              ELSE IF n >= 20 THEN 20
              ELSE IF n >= 18 THEN 18
              ELSE IF n >= 16 THEN 16
              ELSE 18
\* The rules of the detector in their fixed order, each with what it
\* answers: <<the rule matches, type, runtime>>.
DetectionRules(dir) ==
    LET pkg == "package.json" \in dir.files
        deps == dir.package.dependencies
    IN << <<"requirements.txt" \in dir.files
              /\ dir.requirements \cap PythonWebFrameworks # {}, "service", "python">>,
          <<"app.py" \in dir.files \/ "main.py" \in dir.files
              \/ "manage.py" \in dir.files, "service", "python">>,
          <<"pom.xml" \in dir.files \/ "build.gradle" \in dir.files, "service", "java">>,
          <<pkg /\ deps \cap FrontendDeps # {} /\ dir.package.build, "static", "nodejs">>,
          <<pkg /\ (deps \cap ServerDeps # {} \/ "server.js" \in dir.files
                       \/ "index.js" \in dir.files), "service", "nodejs">>,
          <<pkg /\ dir.package.build, "static", "nodejs">>,
          <<"index.html" \in dir.files, "static", "static">>,
          <<TRUE, "static", "static">> >>

FirstMatch(rules) == rules[CHOOSE i \in 1..Len(rules) :
                              rules[i][1] /\ \A j \in 1..(i - 1) : ~rules[j][1]]

\* C26: for every set of marker files, every content of requirements.txt
\* and every package.json that parses, _detect_project_type returns the
\* type and runtime of the first rule that matches, in the order Python
\* requirements, Python entry files, Java, Node.js (frontend dependency
\* with build script, then server dependency or server.js / index.js, then
\* build script), index.html, fallback static/static.
C26_FirstRuleWins ==
    (/\ project.pc = "answered"
     /\ project.method = "_detect_project_type"
     /\ project.dir.package.state # "unparsable") =>
        /\ project.out.status = "returned"
        /\ project.out.type = FirstMatch(DetectionRules(project.dir))[2]
        /\ project.out.runtime = FirstMatch(DetectionRules(project.dir))[3]

\* A package.json with a frontend dependency, a server dependency and a
\* build script, next to a server.js and an index.html, is detected as a
\* static Node.js site.
C26_Witness ==
    /\ project.pc = "answered"
    /\ project.method = "_detect_project_type"
    /\ project.dir.files = {"package.json", "server.js", "index.html"}
    /\ project.dir.package.dependencies = {"vite", "express"}
    /\ project.dir.package.build
    /\ project.out.type = "static"
    /\ project.out.runtime = "nodejs"

\* C27: detect_all and get_smart_suggestions return a result for every
\* directory and never raise, and the config of every detected service,
\* Java included, has a port and a startCommand.
C27_DetectionNeverFails ==
    (project.pc = "answered" /\ project.method \in {"detect_all", "get_smart_suggestions"})
        => /\ project.out.status = "returned"
           /\ project.out.type = "service"
                 => {"port", "startCommand"} \subseteq DOMAIN project.out.config
\* C28: for a Django project (manage.py present, or django named in
\* requirements.txt or Pipfile) without a user startCommand, the command of
\* the Python recipe is the Procfile web: line when the Procfile has one,
\* otherwise the WSGI runner on 0.0.0.0:PORT with 3 workers and a timeout
\* of 120 s when requirements.txt declares it, otherwise manage.py
\* runserver on 0.0.0.0:PORT.
C28_DjangoCommand ==
    LET dir == project.dir
    IN (/\ project.pc = "dockerfile"
        /\ ~dir.start_command
        /\ \/ dir.has_manage_py
           \/ "django" \in dir.requirements
           \/ "django" \in dir.pipfile) =>
          project.cmd.command =
              IF dir.procfile = "web" THEN PROCFILE_WEB
              ELSE IF "gunicorn" \in dir.requirements THEN GUNICORN_DJANGO
              ELSE RUNSERVER
\* C29: a POST /deploy-stream whose clone fails on both branches enqueues
\* no job, ends its stream with an error frame followed by a done frame
\* with success = false, and leaves the record of the deployment queued.
C29_CloneFailureLeavesQueued ==
    [][ (sse'.ended = sse.ended + 1 /\ submits' = submits + 1)
        => /\ q' = q
           /\ Len(sse'.frames) >= 2
           /\ sse'.frames[Len(sse'.frames) - 1].type = "error"
           /\ Last(sse'.frames).type = "done"
           /\ ~Last(sse'.frames).success
           /\ deployments'[sse'.id] # NoRec
           /\ deployments'[sse'.id].status = "queued"
      ]_vars

\* C30: a submit that is a bad request (POST /deploy-stream without
\* projectName, githubRepo or deploymentType; POST /deploy-local without
\* the file part or with an archive that is not a zip) is answered with
\* status 400, enqueues no job and writes no record.
C30_BadRequestRejected ==
    [][ (/\ api'.pc = "done"
         /\ api'.op \in {"deploy_stream", "deploy_local"}
         /\ calls' = calls + 1)
        => /\ api'.status = BAD_REQUEST
           /\ q' = q
           /\ deployments' = deployments
           /\ deployment_versions' = deployment_versions
      ]_vars
\* C31: at the moment a done event becomes visible in the Log Bus of a
\* deployment, the record of that deployment (when it exists) already holds
\* its final status: active with the container id and host port of the
\* event when the event has success = true, failed when it has
\* success = false.
C31_DoneAfterFinalStatus ==
    [][ \A d \in DepIds :
          (/\ Len(logs'[d]) = Len(logs[d]) + 1
           /\ Last(logs'[d]).type = "done"
           /\ deployments'[d] # NoRec)
          => IF Last(logs'[d]).success
             THEN /\ deployments'[d].status = "active"
                  /\ deployments'[d].containerId = Last(logs'[d]).containerId
                  /\ deployments'[d].port = Last(logs'[d]).port
             ELSE deployments'[d].status = "failed"
      ]_vars
\* C32: the url of a deployment record is the reverse-proxy path
\* /deploy/{id}/ from submit onwards, whatever the executor, restart,
\* rollback or env update did since; the public address is held by
\* directUrl only.
C32_UrlIsProxyPath ==
    \A d \in DepIds :
        deployments[d] # NoRec =>
            /\ deployments[d].url = <<"proxy", d>>
            /\ deployments[d].directUrl \in {NoUrl} \cup {PublicUrl(p) : p \in Ports}
Labelled(d) ==
    {c \in DOMAIN containers : Exists(containers, c) /\ containers[c].deployment_id = d}

\* The job of deployment d was executed, ended with done success = true,
\* and was picked up again after that.
ExecutedAgain(d) ==
    \E i, j \in 1..Len(logs[d]) :
        /\ i < j
        /\ logs[d][i].type = "done" /\ logs[d][i].success
        /\ logs[d][j].message = "picked up"

\* C34: executing the same job a second time after a first successful
\* execution is safe for every deployment kind: when no Redis call raises
\* and neither the build nor the new container fails, after the second
\* execution exactly one container labelled with the deployment id exists,
\* it is running, and the record is active (not failed) and points at it.
C34_RedeliverySafe ==
    (/\ faults = 0
     /\ worker.pc = "idle" /\ q = <<>>
     /\ ExecutedAgain(1)
     /\ worker.error \notin {"build_failed", "exited", "no_port"})
    => /\ Cardinality(Labelled(1)) = 1
       /\ deployments[1].status = "active"
       /\ deployments[1].containerId \in Labelled(1)
       /\ Running(deployments[1].containerId)

\* C35: whenever the executor ends a job in the failure path because the
\* container it created did not reach running or because the port mapping
\* of that container could not be read, that container has been removed
\* from the engine, for static, Python/Node.js, dev-mode and Java
\* deployments alike.
C35_FailedRunLeavesNoContainer ==
    worker.error \in {"exited", "no_port"} => ~Exists(containers, Len(containers))
\* C36: every deployment record with status queued or building has a job
\* for its id that is waiting in the queue or being executed by the worker,
\* also after an enqueue call that failed once the record was saved.
C36_PendingRecordHasJob ==
    \A d \in DepIds :
        (deployments[d] # NoRec /\ deployments[d].status \in {"queued", "building"})
        => \/ \E i \in 1..Len(q) : q[i].dep_id = d
           \/ worker.pc # "idle" /\ worker.dep_id = d
\* C37: save_deployment followed by get_deployment is a round trip in both
\* store dialects: for an id that already has a row, the record read back
\* has the saved status, container id, port, url, direct url, timestamp,
\* config, environment variables, version, custom domain and volume path.
C37_SaveGetRoundTrip ==
    project.pc = "read" =>
        /\ project.out.status = project.dep.status
        /\ project.out.containerId = project.dep.containerId
        /\ project.out.port = project.dep.port
        /\ project.out.url = project.dep.url
        /\ project.out.directUrl = project.dep.directUrl
        /\ project.out.timestamp = project.dep.timestamp
        /\ project.out.config = project.dep.config
        /\ project.out.environmentVariables = project.dep.environmentVariables
        /\ project.out.version = project.dep.version
        /\ project.out.customDomain = project.dep.customDomain
        /\ project.out.volumePath = project.dep.volumePath
\* C38: under any interleaving of is_allowed calls of request threads on one
\* key, the check of the count and the recording of the request are atomic
\* (one thread at a time is between the check and the return), at most
\* max_requests admitted calls have a timestamp in any window, every
\* remaining handed to an admitted call is non-negative, and two admitted
\* calls between which no recorded request left the window are handed
\* distinct remaining values.
C38_AtomicAdmission ==
    LET max == max_requests(limiter.limit_type)
        inside == {t \in 1..NumThreads : limiter.threads[t].pc \in {"clean", "record"}}
    IN /\ Cardinality(inside) <= 1
       /\ \A t \in WindowEnds : Cardinality(AdmittedIn(t)) <= max
       /\ Len(limiter.requests) <= max
       /\ \A i \in 1..Len(limiter.returned) :
              /\ limiter.returned[i].remaining >= 0
              /\ \A j \in 1..Len(limiter.returned) :
                     (/\ i # j
                      /\ limiter.returned[i].expired = limiter.returned[j].expired)
                     => limiter.returned[i].remaining # limiter.returned[j].remaining

\* One thread is between its check and its append with the last free place
\* of the window in hand, while another thread waits for the lock.
C38_Witness ==
    \E t, u \in 1..NumThreads :
        /\ limiter.threads[t].pc = "record"
        /\ ~limiter.threads[t].full
        /\ Len(limiter.requests) = max_requests(limiter.limit_type) - 1
        /\ limiter.threads[u].pc = "waiting"

\* C38 as stated: the remaining values handed to the admitted calls with
\* timestamps inside one window are distinct.
C38_DistinctInWindow ==
    \A t \in WindowEnds :
        \A i, j \in AdmittedIn(t) :
            (i # j /\ Len(limiter.returned) = Len(limiter.admitted))
            => limiter.returned[i].remaining # limiter.returned[j].remaining

\* C39: every tail loop ends.  A loop that is polling or forwarding reaches
\* its end, by forwarding done or by the timeout; while done is in the list
\* of a running loop the loop ends by forwarding it; a loop that stopped on
\* done forwarded it last; a non-empty read resets the count of empty
\* reads; and the timeout is the read after EMPTY_READS_LIMIT consecutive
\* empty ones, it finds nothing unread, yields one error frame, changes no
\* deployment record and appends nothing to any log list.
C39_TailLoopTerminates ==
    /\ (sse.pc \in {"poll", "forward"}) ~> (sse.pc \in {"closed", "timed_out"})
    /\ (sse.pc \in {"poll", "forward"} /\ \E i \in 1..Len(logs[sse.id]) :
                                             logs[sse.id][i].type = "done")
           ~> (sse.pc = "closed")
    /\ [](sse.pc = "closed" => Last(sse.frames).type = "done")
    /\ [][sse.pc = "poll" /\ sse'.pc = "forward" => sse'.empty_reads = 0]_vars
    /\ [][sse.pc # "timed_out" /\ sse'.pc = "timed_out"
            => /\ sse.empty_reads = EMPTY_READS_LIMIT
               /\ sse.last_idx >= Len(logs[sse.id])
               /\ sse'.frames = Append(sse.frames, Event("error", "timeout"))
               /\ deployments' = deployments
               /\ deployment_versions' = deployment_versions
               /\ logs' = logs]_vars

\* The job raised before it appended done, and the loop that had forwarded
\* the records of the job gave up after the silence.
C39_Witness ==
    /\ sse.pc = "timed_out"
    /\ sse.last_idx > sse.attached_at
    /\ sse.empty_reads = EMPTY_READS_LIMIT + 1
    /\ worker.pc = "idle"

\* C40: cleanup_all returns whenever it is called, on its return no key is
\* left in active_tunnels and no started cloudflared process is running,
\* and the thread inside cleanup_all never waits in stop_tunnel for a lock
\* that is held.
C40_CleanupAllReturns ==
    /\ \A t \in 1..NumThreads :
          (tunnels.threads[t].pc = "cleanup_all")
              ~> (tunnels.threads[t].pc = "idle" /\ tunnels.threads[t].ret = "cleaned")
    /\ [][\A t \in 1..NumThreads :
             (tunnels.threads[t].pc = "cleanup_loop" /\ tunnels'.threads[t].pc = "idle")
                 => /\ tunnels'.active_tunnels = <<>>
                    /\ \A d \in DepIds : tunnels'.process[d] # "running"]_vars
    /\ [](\A t \in 1..NumThreads :
             (tunnels.threads[t].pc = "stop_tunnel"
                  /\ tunnels.threads[t].caller = "cleanup_all")
                 => Acquirable(tunnels))

====
